---- MODULE Spec2Model ----
(***************************************************************************)
(* State-machine model of the ALPS GlidePoint PS/2 touchpad driver         *)
(* (VoodooPS2ALPSGlidePoint.cpp): model identification, the byte framer    *)
(* and its drain loop, and the bitmap reconstructor.                       *)
(***************************************************************************)
EXTENDS Integers, Sequences, FiniteSets, TLC

(***************************************************************************)
(* Byte arithmetic.                                                        *)
(***************************************************************************)
RECURSIVE BitAnd(_, _)
BitAnd(a, b) ==
    IF a = 0 \/ b = 0 THEN 0
    ELSE (a % 2) * (b % 2) + 2 * BitAnd(a \div 2, b \div 2)

max(a, b) == IF a > b THEN a ELSE b

(***************************************************************************)
(* Capability flags and protocol versions.                                 *)
(***************************************************************************)
ALPS_DUALPOINT == 2
ALPS_PASS == 4
ALPS_WHEEL == 8
ALPS_FW_BK_1 == 16
ALPS_FW_BK_2 == 32
ALPS_FOUR_BUTTONS == 64
ALPS_PS2_INTERLEAVED == 128

ALPS_PROTO_V1 == "ALPS_PROTO_V1"
ALPS_PROTO_V2 == "ALPS_PROTO_V2"
ALPS_PROTO_V3 == "ALPS_PROTO_V3"
ALPS_PROTO_V4 == "ALPS_PROTO_V4"
ALPS_PROTO_V5 == "ALPS_PROTO_V5"

kIOReturnSuccess == "kIOReturnSuccess"
kIOReturnIOError == "kIOReturnIOError"
kIOReturnInvalid == "kIOReturnInvalid"

ModelInfo(sig, resp, proto, b0, m0, fl) ==
    [signature |-> sig, command_mode_resp |-> resp, proto_version |-> proto,
     byte0 |-> b0, mask0 |-> m0, flags |-> fl]

alps_model_data ==
    << ModelInfo(<<\H32, \H02, \H14>>, 0, ALPS_PROTO_V2, \Hf8, \Hf8, ALPS_PASS + ALPS_DUALPOINT),
       ModelInfo(<<\H33, \H02, \H0a>>, 0, ALPS_PROTO_V1, \H88, \Hf8, 0),
       ModelInfo(<<\H53, \H02, \H0a>>, 0, ALPS_PROTO_V2, \Hf8, \Hf8, 0),
       ModelInfo(<<\H53, \H02, \H14>>, 0, ALPS_PROTO_V2, \Hf8, \Hf8, 0),
       ModelInfo(<<\H60, \H03, \Hc8>>, 0, ALPS_PROTO_V2, \Hf8, \Hf8, 0),
       ModelInfo(<<\H63, \H02, \H0a>>, 0, ALPS_PROTO_V2, \Hf8, \Hf8, 0),
       ModelInfo(<<\H63, \H02, \H14>>, 0, ALPS_PROTO_V2, \Hf8, \Hf8, 0),
       ModelInfo(<<\H63, \H02, \H28>>, 0, ALPS_PROTO_V2, \Hf8, \Hf8, ALPS_FW_BK_2),
       ModelInfo(<<\H63, \H02, \H3c>>, 0, ALPS_PROTO_V2, \H8f, \H8f, ALPS_WHEEL),
       ModelInfo(<<\H63, \H02, \H50>>, 0, ALPS_PROTO_V2, \Hef, \Hef, ALPS_FW_BK_1),
       ModelInfo(<<\H63, \H02, \H64>>, 0, ALPS_PROTO_V2, \Hf8, \Hf8, 0),
       ModelInfo(<<\H63, \H03, \Hc8>>, 0, ALPS_PROTO_V2, \Hf8, \Hf8, ALPS_PASS + ALPS_DUALPOINT),
       ModelInfo(<<\H73, \H00, \H0a>>, 0, ALPS_PROTO_V2, \Hf8, \Hf8, ALPS_DUALPOINT),
       ModelInfo(<<\H73, \H02, \H0a>>, 0, ALPS_PROTO_V2, \Hf8, \Hf8, 0),
       ModelInfo(<<\H73, \H02, \H14>>, 0, ALPS_PROTO_V2, \Hf8, \Hf8, ALPS_FW_BK_2),
       ModelInfo(<<\H20, \H02, \H0e>>, 0, ALPS_PROTO_V2, \Hf8, \Hf8, ALPS_PASS + ALPS_DUALPOINT),
       ModelInfo(<<\H22, \H02, \H0a>>, 0, ALPS_PROTO_V2, \Hf8, \Hf8, ALPS_PASS + ALPS_DUALPOINT),
       ModelInfo(<<\H22, \H02, \H14>>, 0, ALPS_PROTO_V2, \Hff, \Hff, ALPS_PASS + ALPS_DUALPOINT),
       ModelInfo(<<\H62, \H02, \H14>>, 0, ALPS_PROTO_V2, \Hcf, \Hcf,
                 ALPS_PASS + ALPS_DUALPOINT + ALPS_PS2_INTERLEAVED),
       ModelInfo(<<\H73, \H02, \H50>>, 0, ALPS_PROTO_V2, \Hcf, \Hcf, ALPS_FOUR_BUTTONS),
       ModelInfo(<<\H52, \H01, \H14>>, 0, ALPS_PROTO_V2, \Hff, \Hff,
                 ALPS_PASS + ALPS_DUALPOINT + ALPS_PS2_INTERLEAVED),
       ModelInfo(<<\H73, \H02, \H64>>, \H8a, ALPS_PROTO_V4, \H8f, \H8f, 0) >>

(***************************************************************************)
(* State.                                                                  *)
(***************************************************************************)
VARIABLES
    modelData,          \* struct alps_data: the profile and per-session fields
    hw_init,            \* member function pointers selected by setDefaults
    process_packet,
    decode_fields,
    _bounds,            \* coordinate bounds published by probe
    lastIdent,          \* history: the last probe / deviceSpecificInit call
    _packetByteCount,   \* framer cursor
    _ringBuffer,        \* byte queue between framer and drain loop
    pending,            \* a packetReady callback is scheduled
    nfed,               \* history: number of bytes delivered so far
    lastCall,           \* history: the last interruptOccurred call
    signalled,          \* history: packets for which the framer returned ready
    consumed,           \* history: what the drain loop removed at the tail
    aborted,            \* history: ordinals of the bytes of aborted packets
    f,                  \* struct alps_fields handed to processBitmap
    lastBitmap,         \* history: the last processBitmap call
    ps2dev,             \* the device in command mode: address nibbles, registers
    lastCmd,            \* history: the last command-mode register call
    prevCmd,            \* history: the call before it
    ncmds,              \* history: number of register calls so far
    touch,              \* gesture state and configuration of the touchpad base
    events,             \* history: the events dispatched so far, in order
    lastPacket,         \* history: the last packet handler call
    prevPacket,         \* history: the call before it
    npackets,           \* history: number of packets handled so far
    uptime              \* clock_get_uptime, in nanoseconds

profileVars == <<modelData, hw_init, process_packet, decode_fields, _bounds>>
framerVars == <<_packetByteCount, _ringBuffer, pending, nfed, lastCall,
                signalled, consumed, aborted>>
bitmapVars == <<f, lastBitmap>>
cmdVars == <<ps2dev, lastCmd, prevCmd, ncmds>>
touchVars == <<touch, events, lastPacket, prevPacket, npackets, uptime>>
vars == <<modelData, hw_init, process_packet, decode_fields, _bounds, lastIdent,
          _packetByteCount, _ringBuffer, pending, nfed, lastCall, signalled,
          consumed, aborted, f, lastBitmap, ps2dev, lastCmd, prevCmd, ncmds,
          touch, events, lastPacket, prevPacket, npackets, uptime>>

(***************************************************************************)
(* Device object as the identification code sees it.                       *)
(***************************************************************************)
Device == [modelData |-> modelData, hw_init |-> hw_init,
           process_packet |-> process_packet, decode_fields |-> decode_fields]

\* The driver object is zero-filled when allocated; probe() runs first.
ZeroModelData ==
    [proto_version |-> "unset", byte0 |-> 0, mask0 |-> 0, flags |-> 0,
     x_max |-> 0, y_max |-> 0, x_bits |-> 0, y_bits |-> 0, pktsize |-> 0,
     nibble_commands |-> "NULL", addr_command |-> "NULL", second_touch |-> 0,
     multi_packet |-> 0, multi_data |-> <<0, 0, 0, 0, 0, 0>>, prev_fin |-> 0,
     quirks |-> 0, lastz |-> 0, fingers |-> 0]

ZeroDevice == [modelData |-> ZeroModelData, hw_init |-> "NULL",
               process_packet |-> "NULL", decode_fields |-> "NULL"]

setDefaults(dev) ==
    LET m0 == [dev.modelData EXCEPT !.byte0 = \H8f, !.mask0 = \H8f,
                                    !.flags = ALPS_DUALPOINT,
                                    !.x_max = 2000, !.y_max = 1400,
                                    !.x_bits = 15, !.y_bits = 11]
        pv == dev.modelData.proto_version
    IN  CASE pv \in {ALPS_PROTO_V1, ALPS_PROTO_V2} ->
               [dev EXCEPT !.hw_init = "hwInitV1V2",
                           !.process_packet = "processPacketV1V2",
                           !.modelData = [m0 EXCEPT !.x_max = 1100, !.y_max = 800]]
          [] pv = ALPS_PROTO_V3 ->
               [dev EXCEPT !.hw_init = "hwInitV3",
                           !.process_packet = "processPacketV3",
                           !.decode_fields = "decodePinnacle",
                           !.modelData = [m0 EXCEPT !.nibble_commands = "alps_v3_nibble_commands",
                                                    !.addr_command = "kDP_MouseResetWrap"]]
          [] pv = ALPS_PROTO_V4 ->
               [dev EXCEPT !.hw_init = "hwInitV4",
                           !.process_packet = "processPacketV4",
                           !.modelData = [m0 EXCEPT !.nibble_commands = "alps_v4_nibble_commands",
                                                    !.addr_command = "kDP_SetDefaultsAndDisable"]]
          [] pv = ALPS_PROTO_V5 ->
               [dev EXCEPT !.hw_init = "hwInitDolphinV1",
                           !.process_packet = "processPacketV3",
                           !.decode_fields = "decodeDolphin",
                           !.modelData = [m0 EXCEPT !.nibble_commands = "alps_v3_nibble_commands",
                                                    !.addr_command = "kDP_MouseResetWrap",
                                                    !.byte0 = \Hc8, !.mask0 = \Hc8,
                                                    !.flags = 0,
                                                    !.x_max = 1360, !.y_max = 660,
                                                    !.x_bits = 23, !.y_bits = 12]]
          [] OTHER -> [dev EXCEPT !.modelData = m0]

\* Mutation: the command-mode response compared with the wrong EC byte.
RowMatches_WrongEcByte(model, e7, ec) ==
    /\ e7 = model.signature
    /\ (model.command_mode_resp = 0 \/ model.command_mode_resp = ec[2])

RowMatches(model, e7, ec) ==
    /\ e7 = model.signature
    /\ (model.command_mode_resp = 0 \/ model.command_mode_resp = ec[3])

RECURSIVE matchTableFrom(_, _, _, _)
matchTableFrom(i, dev, e7, ec) ==
    IF i > Len(alps_model_data) THEN [found |-> FALSE, dev |-> dev]
    ELSE LET model == alps_model_data[i] IN
         IF RowMatches(model, e7, ec)
         THEN LET d0 == [dev EXCEPT !.modelData.proto_version = model.proto_version]
                  d1 == setDefaults(d0)
              IN [found |-> TRUE,
                  dev |-> [d1 EXCEPT !.modelData.flags = model.flags,
                                     !.modelData.byte0 = model.byte0,
                                     !.modelData.mask0 = model.mask0]]
         ELSE matchTableFrom(i + 1, dev, e7, ec)

matchTable(dev, e7, ec) == matchTableFrom(1, dev, e7, ec)

\* Mutation: the E6 report must be exactly {0,0,10} or {0,0,100}.
E6Valid_ExactZero(e6) ==
    ~(e6[1] # 0 \/ e6[2] # 0 \/ (e6[3] # 10 /\ e6[3] # 100))

E6Valid(e6) ==
    ~(BitAnd(e6[1], \Hf8) # 0 \/ e6[2] # 0 \/ (e6[3] # 10 /\ e6[3] # 100))

(***************************************************************************)
(* identify(): in.failAt is the first report exchange the transport cuts   *)
(* short (0: none); in.tsProbe is the result of probeTrackstickV3.         *)
(* cmds lists the repeated command of every exchange that was submitted.   *)
(***************************************************************************)
identify(dev, in) ==
    IF in.failAt = 1
    THEN [ret |-> kIOReturnIOError, dev |-> dev, cmds |-> <<"kDP_SetMouseScaling1To1">>]
    ELSE IF ~E6Valid(in.e6)
    THEN [ret |-> kIOReturnInvalid, dev |-> dev, cmds |-> <<"kDP_SetMouseScaling1To1">>]
    ELSE IF in.failAt = 2
    THEN [ret |-> kIOReturnIOError, dev |-> dev,
          cmds |-> <<"kDP_SetMouseScaling1To1", "kDP_SetMouseScaling2To1">>]
    ELSE IF in.failAt = 3
    THEN [ret |-> kIOReturnIOError, dev |-> dev,
          cmds |-> <<"kDP_SetMouseScaling1To1", "kDP_SetMouseScaling2To1",
                     "kDP_MouseResetWrap">>]
    ELSE
    LET e7 == in.e7
        ec == in.ec
        all == <<"kDP_SetMouseScaling1To1", "kDP_SetMouseScaling2To1",
                 "kDP_MouseResetWrap", "kDP_SetMouseStreamMode">>
    IN  LET mt == CHOOSE m \in {matchTable(dev, e7, ec)} : TRUE IN
        IF mt.found
        THEN [ret |-> kIOReturnSuccess, dev |-> mt.dev, cmds |-> all]
        ELSE IF e7[1] = \H73 /\ e7[2] = \H03 /\ e7[3] = \H50 /\
                ec[1] = \H73 /\ (ec[2] = \H01 \/ ec[2] = \H02)
        THEN [ret |-> kIOReturnSuccess,
              dev |-> setDefaults([dev EXCEPT !.modelData.proto_version = ALPS_PROTO_V5]),
              cmds |-> all]
        ELSE IF ec[1] = \H88 /\ ec[2] = \H08
        THEN LET d1 == setDefaults([dev EXCEPT !.modelData.proto_version = ALPS_PROTO_V3])
                 d2 == [d1 EXCEPT !.hw_init = "hwInitRushmoreV3",
                                  !.decode_fields = "decodeRushmore",
                                  !.modelData.x_bits = 16,
                                  !.modelData.y_bits = 12]
                 d3 == IF in.tsProbe # 0
                       THEN [d2 EXCEPT !.modelData.flags =
                                 BitAnd(d2.modelData.flags, 255 - ALPS_DUALPOINT)]
                       ELSE d2
             IN [ret |-> kIOReturnSuccess, dev |-> d3, cmds |-> all]
        ELSE IF ec[1] = \H88 /\ ec[2] = \H07 /\ ec[3] >= \H90 /\ ec[3] <= \H9d
        THEN [ret |-> kIOReturnSuccess,
              dev |-> setDefaults([dev EXCEPT !.modelData.proto_version = ALPS_PROTO_V3]),
              cmds |-> all]
        ELSE [ret |-> kIOReturnInvalid, dev |-> dev, cmds |-> all]

(***************************************************************************)
(* hw_init: the register programming is bus traffic; hw is what the        *)
(* transport made of it (ts: trackstick setup result, rest: the remaining  *)
(* exchanges all completed).                                               *)
(***************************************************************************)
HwOutcomes ==
    { [ts |-> "ok", rest |-> TRUE], [ts |-> "kIOReturnNoDevice", rest |-> TRUE],
      [ts |-> "kIOReturnIOError", rest |-> TRUE], [ts |-> "ok", rest |-> FALSE] }

callHwInit(dev, hw) ==
    LET usesTs == dev.hw_init \in {"hwInitV3", "hwInitRushmoreV3"}
        dual == BitAnd(dev.modelData.flags, ALPS_DUALPOINT) # 0
        clear == /\ dev.hw_init = "hwInitRushmoreV3"
                 /\ dual
                 /\ hw.ts = "kIOReturnNoDevice"
    IN [ok |-> hw.rest /\ ~(usesTs /\ hw.ts = "kIOReturnIOError"),
        dev |-> IF clear
                THEN [dev EXCEPT !.modelData.flags =
                          BitAnd(dev.modelData.flags, 255 - ALPS_DUALPOINT)]
                ELSE dev]

PacketSizeFor(proto_version) == IF proto_version = ALPS_PROTO_V4 THEN 8 ELSE 6

\* deviceSpecificInit() as a function of the device and the bus outcomes.
deviceSpecificInit(dev, in, hw) ==
    LET id == identify(dev, in) IN
    IF id.ret # kIOReturnSuccess
    THEN [ok |-> FALSE, dev |-> id.dev, id |-> id]
    ELSE LET d1 == [id.dev EXCEPT !.modelData.pktsize =
                        PacketSizeFor(id.dev.modelData.proto_version)]
             h == callHwInit(d1, hw)
         IN [ok |-> h.ok, dev |-> h.dev, id |-> id]

E6Reports ==
    { <<0, 0, 10>>, <<0, 0, 100>>, <<7, 0, 10>>, <<3, 0, 100>>, <<8, 0, 10>>,
      <<0, 1, 100>>, <<0, 0, 50>> }

E7Reports ==
    { <<\H73, \H02, \H64>>, <<\H73, \H02, \H0a>>, <<\H73, \H03, \H50>>,
      <<\H63, \H02, \H64>>, <<\H10, \H00, \H00>> }

ECReports ==
    { <<\H73, \H02, \H8a>>, <<\H88, \H08, \H8a>>, <<\H88, \H07, \H9d>>,
      <<\H73, \H01, \H00>>, <<\H88, \H07, \H8a>> }

\* Every E7/EC pair under one E6 report, every E6 report under one E7/EC
\* pair, a short exchange at each of the three reports, a failed trackstick
\* probe.
IdentInputs ==
    [e6 : {<<0, 0, 10>>}, e7 : E7Reports, ec : ECReports,
     failAt : {0}, tsProbe : {0}]
    \cup [e6 : E6Reports, e7 : {<<\H73, \H02, \H64>>}, ec : {<<\H73, \H02, \H8a>>},
          failAt : {0}, tsProbe : {0}]
    \cup [e6 : {<<0, 0, 10>>}, e7 : {<<\H73, \H02, \H64>>}, ec : {<<\H73, \H02, \H8a>>},
          failAt : 1..3, tsProbe : {0}]
    \cup [e6 : {<<0, 0, 10>>}, e7 : {<<\H10, \H00, \H00>>}, ec : {<<\H88, \H08, \H8a>>},
          failAt : {0}, tsProbe : {1}]

NoIdent == [op |-> "none"]

SetDevice(dev) ==
    /\ modelData' = dev.modelData
    /\ hw_init' = dev.hw_init
    /\ process_packet' = dev.process_packet
    /\ decode_fields' = dev.decode_fields

Probe ==
    \E in \in IdentInputs :
        \E id \in {identify(Device, in)} :
            /\ SetDevice(id.dev)
            /\ _bounds' = IF id.ret # kIOReturnSuccess THEN _bounds
                          ELSE [maxx |-> id.dev.modelData.x_max,
                                maxy |-> id.dev.modelData.y_max]
            /\ lastIdent' = [op |-> "probe", in |-> in, ret |-> id.ret,
                             cmds |-> id.cmds, ok |-> id.ret = kIOReturnSuccess]
            /\ UNCHANGED <<framerVars, bitmapVars, cmdVars, touchVars>>

DeviceSpecificInit ==
    \E in \in IdentInputs, hw \in HwOutcomes :
        \E r \in {deviceSpecificInit(Device, in, hw)} :
            /\ SetDevice(r.dev)
            /\ lastIdent' = [op |-> "deviceSpecificInit", in |-> in, ret |-> r.id.ret,
                             cmds |-> r.id.cmds, ok |-> r.ok]
            /\ UNCHANGED <<_bounds, framerVars, bitmapVars, cmdVars, touchVars>>

(***************************************************************************)
(* Byte queue between interruptOccurred and packetReady.  Its capacity is  *)
(* never reached within MaxBytes delivered bytes, so positions are plain   *)
(* offsets.  A cell holds the byte and, as history, the ordinal of the     *)
(* delivered byte that was stored there (0: never written).                *)
(***************************************************************************)
MaxBytes == 9

kPacketLengthSmall == 3

BufLen == 8 * (MaxBytes \div 3 + 1)

EmptyCell == [b |-> 0, src |-> 0]

EmptyRing == [buf |-> [i \in 0..(BufLen - 1) |-> EmptyCell],
              head |-> 0, tail |-> 0, count |-> 0]

advanceHead(rb, move) == [rb EXCEPT !.head = rb.head + move, !.count = rb.count + move]

advanceTail(rb, move) == [rb EXCEPT !.tail = rb.tail + move, !.count = rb.count - move]

\* The cells p[0..n-1] behind a pointer into the queue.
Window(rb, at, n) == [i \in 1..n |-> rb.buf[at + i - 1]]

\* Mutation: only the profile signature starts a packet.
StartByteRejected_ProfileOnly(cnt, data, md) ==
    0 = cnt /\ BitAnd(data, md.mask0) # md.byte0

StartByteRejected(cnt, data, md) ==
    0 = cnt /\ BitAnd(data, \Hc8) # \H08 /\ BitAnd(data, md.mask0) # md.byte0

\* Mutation: the check starts one byte late.
ContinuationInvalid_FromSecond(cnt, data) == cnt >= 2 /\ data = \H80

ContinuationInvalid(cnt, data) == cnt >= 1 /\ data = \H80

\* Mutation: any 3 buffered bytes complete a packet.
PacketComplete_AnyThree(cnt, packet0, md) ==
    md.pktsize = cnt \/ kPacketLengthSmall = cnt

PacketComplete(cnt, packet0, md) ==
    md.pktsize = cnt \/ (kPacketLengthSmall = cnt /\ BitAnd(packet0, \Hc8) = \H08)

Bytes == {\H08, \H80, \Hff}

(***************************************************************************)
(* interruptOccurred(data)                                                 *)
(***************************************************************************)
InterruptOccurred ==
    \E data \in Bytes :
        /\ nfed < MaxBytes
        /\ nfed' = nfed + 1
        /\ LET cnt == _packetByteCount
               rb == _ringBuffer
               Call(result) == [data |-> data, src |-> nfed + 1, cnt0 |-> cnt,
                                head0 |-> rb.head, sig0 |-> Len(signalled),
                                result |-> result]
           IN
           IF StartByteRejected(cnt, data, modelData)
           THEN /\ lastCall' = Call("kPS2IR_packetBuffering")
                /\ UNCHANGED <<_packetByteCount, _ringBuffer, pending, signalled,
                               aborted>>
           ELSE IF ContinuationInvalid(cnt, data)
           THEN /\ _packetByteCount' = 0
                /\ lastCall' = Call("kPS2IR_packetBuffering")
                /\ aborted' = aborted \cup {rb.buf[rb.head + i].src : i \in 0..(cnt - 1)}
                /\ UNCHANGED <<_ringBuffer, pending, signalled>>
           ELSE LET rb1 == [rb EXCEPT !.buf[rb.head + cnt] = [b |-> data, src |-> nfed + 1]]
                    cnt1 == cnt + 1
                IN IF PacketComplete(cnt1, rb1.buf[rb1.head].b, modelData)
                   THEN /\ _ringBuffer' = advanceHead(rb1, modelData.pktsize)
                        /\ _packetByteCount' = 0
                        /\ signalled' = Append(signalled,
                                               [at |-> rb1.head,
                                                cells |-> Window(rb1, rb1.head, cnt1)])
                        /\ pending' = TRUE
                        /\ lastCall' = Call("kPS2IR_packetReady")
                        /\ UNCHANGED aborted
                   ELSE /\ _ringBuffer' = rb1
                        /\ _packetByteCount' = cnt1
                        /\ lastCall' = Call("kPS2IR_packetBuffering")
                        /\ UNCHANGED <<pending, signalled, aborted>>
        /\ UNCHANGED <<profileVars, lastIdent, consumed, bitmapVars, cmdVars, touchVars>>

(***************************************************************************)
(* packetReady(): the whole drain loop.  log records every packet taken    *)
(* at the tail: handed to process_packet, or ignored as a bare packet.     *)
(***************************************************************************)
RECURSIVE drain(_, _, _)
drain(rb, log, md) ==
    IF ~(rb.count >= md.pktsize) THEN [rb |-> rb, log |-> log]
    ELSE LET packet == Window(rb, rb.tail, md.pktsize) IN
         IF BitAnd(packet[1].b, md.mask0) = md.byte0
         THEN drain(advanceTail(rb, md.pktsize),
                    Append(log, [kind |-> "process_packet", at |-> rb.tail,
                                 cells |-> packet]),
                    md)
         ELSE drain(advanceTail(rb, kPacketLengthSmall),
                    Append(log, [kind |-> "ignored", at |-> rb.tail,
                                 cells |-> Window(rb, rb.tail, kPacketLengthSmall)]),
                    md)

PacketReady ==
    /\ pending
    /\ LET r == drain(_ringBuffer, consumed, modelData) IN
       /\ _ringBuffer' = r.rb
       /\ consumed' = r.log
    /\ pending' = FALSE
    /\ UNCHANGED <<profileVars, lastIdent, _packetByteCount, nfed, lastCall,
                   signalled, aborted, bitmapVars, cmdVars, touchVars>>

(***************************************************************************)
(* Bitmap reconstructor.                                                   *)
(***************************************************************************)
\* C integer division (truncates toward zero).
CDiv(a, b) ==
    IF (a >= 0) = (b > 0)
    THEN (IF a >= 0 THEN a ELSE -a) \div (IF b > 0 THEN b ELSE -b)
    ELSE -((IF a >= 0 THEN a ELSE -a) \div (IF b > 0 THEN b ELSE -b))

ZeroPoint == [start_bit |-> 0, num_bits |-> 0]

RECURSIVE bitmapScan(_, _, _, _)
bitmapScan(i, map, prev_bit, st) ==
    IF map = 0 THEN st
    ELSE LET bit == map % 2
             opened == IF prev_bit = 0
                       THEN [st EXCEPT ![st.point] = [start_bit |-> i, num_bits |-> 0],
                                       !.fingers = @ + 1]
                       ELSE st
             st1 == IF bit = 1
                    THEN [opened EXCEPT ![st.point].num_bits = @ + 1]
                    ELSE IF prev_bit = 1 THEN [st EXCEPT !.point = "high"] ELSE st
         IN bitmapScan(i + 1, map \div 2, bit, st1)

alps_get_bitmap_points(map, low, high, fingers) ==
    bitmapScan(0, map, 0, [point |-> "low", low |-> low, high |-> high,
                           fingers |-> fingers])

\* Mutation: the bitmaps count as empty only when both are.
EmptyBitmap_Both(fields) == fields.x_map = 0 /\ fields.y_map = 0

EmptyBitmap(fields) == fields.x_map = 0 \/ fields.y_map = 0

\* Mutation: the synthetic high run is not given its minimum of one bit.
SplitSingle_NoMinimum(low, high) ==
    LET i == low.num_bits \div 2 IN
    [low |-> [low EXCEPT !.num_bits = low.num_bits - i],
     high |-> [start_bit |-> low.start_bit + i, num_bits |-> i]]

\* An axis with a single contact: divide it between the two points.
SplitSingle(low, high) ==
    LET i == low.num_bits \div 2 IN
    [low |-> [low EXCEPT !.num_bits = low.num_bits - i],
     high |-> [start_bit |-> low.start_bit + i, num_bits |-> max(i, 1)]]

CornerCoord(maxv, bits, pt) ==
    CDiv(maxv * (2 * pt.start_bit + pt.num_bits - 1), 2 * (bits - 1))

\* closest-corner loop over corner[from..3]; best = <<second_touch, closest>>
RECURSIVE closestCorner(_, _, _, _)
closestCorner(i, corner, fields, best) ==
    IF i > 3 THEN best
    ELSE LET dx == fields.x - corner[i].x
             dy == fields.y - corner[i].y
             distance == dx * dx + dy * dy
         IN closestCorner(i + 1, corner, fields,
                          IF distance < best[2] THEN <<i, distance>> ELSE best)

\* Mutation: only the x axis is counted.
FingerCount_XOnly(fingers_x, fingers_y) == fingers_x

\* Fingers can overlap: the maximum count on either axis is the finger count.
FingerCount(fingers_x, fingers_y) == max(fingers_x, fingers_y)

processBitmap(md, fields) ==
    IF EmptyBitmap(fields)
    THEN [ret |-> 0, md |-> md, f |-> fields, corner |-> <<>>, pts |-> <<>>]
    ELSE
    LET sx == alps_get_bitmap_points(fields.x_map, ZeroPoint, ZeroPoint, 0)
        sy == alps_get_bitmap_points(fields.y_map, ZeroPoint, ZeroPoint, 0)
        fingers == FingerCount(sx.fingers, sy.fingers)
        px == IF sx.fingers = 1 THEN SplitSingle(sx.low, sx.high)
              ELSE [low |-> sx.low, high |-> sx.high]
        py == IF sy.fingers = 1 THEN SplitSingle(sy.low, sy.high)
              ELSE [low |-> sy.low, high |-> sy.high]
        xl == CornerCoord(md.x_max, md.x_bits, px.low)
        xh == CornerCoord(md.x_max, md.x_bits, px.high)
        yl == CornerCoord(md.y_max, md.y_bits, py.low)
        yh == CornerCoord(md.y_max, md.y_bits, py.high)
        c0 == [i \in 0..3 |->
                 [x |-> IF i \in {0, 3} THEN xl ELSE xh,
                  y |-> IF i \in {0, 1} THEN yl ELSE yh]]
        c1 == IF md.proto_version = ALPS_PROTO_V5
              THEN [i \in 0..3 |-> [c0[i] EXCEPT !.x = md.x_max - c0[i].x]]
              ELSE c0
        corner == IF md.proto_version \in {ALPS_PROTO_V3, ALPS_PROTO_V4}
                  THEN [i \in 0..3 |-> [c1[i] EXCEPT !.y = md.y_max - c1[i].y]]
                  ELSE c1
        st == IF md.second_touch = -1
              THEN (closestCorner(0, corner, fields, <<-1, 2147483647>>)[1] + 2) % 4
              ELSE md.second_touch
    IN [ret |-> fingers,
        md |-> [md EXCEPT !.second_touch = st],
        f |-> [fields EXCEPT !.x1 = fields.x, !.y1 = fields.y,
                             !.x2 = corner[st].x, !.y2 = corner[st].y],
        corner |-> corner,
        pts |-> [x |-> px, y |-> py]]

MapWidth == 4

RECURSIVE Pow2(_)
Pow2(k) == IF k = 0 THEN 1 ELSE 2 * Pow2(k - 1)

XMaps == (0..(Pow2(MapWidth) - 1)) \cup {Pow2(k) : k \in 0..(modelData.x_bits - 1)}

YMaps == (0..(Pow2(MapWidth) - 1)) \cup {Pow2(k) : k \in 0..(modelData.y_bits - 1)}

Positions == { <<0, 0>>, <<2000, 0>>, <<700, 1400>> }

NoBitmap == [op |-> "none"]

\* processBitmap applied to the struct alps_fields its caller built.
ProcessBitmap ==
    /\ lastBitmap = NoBitmap
    /\ \E r \in {processBitmap(modelData, f)} :
           /\ modelData' = r.md
           /\ f' = r.f
           /\ lastBitmap' = [op |-> "processBitmap", x_map |-> f.x_map, y_map |-> f.y_map,
                             second_touch0 |-> modelData.second_touch,
                             f0 |-> f, ret |-> r.ret, corner |-> r.corner,
                             pts |-> r.pts]
    /\ UNCHANGED <<hw_init, process_packet, decode_fields, _bounds,
                   lastIdent, framerVars, cmdVars, touchVars>>

(***************************************************************************)
(* Gesture state machine: dispatchEventsWithInfo.                          *)
(***************************************************************************)
BitOr(a, b) == a + b - BitAnd(a, b)

\* C remainder (sign of the dividend).
CRem(a, b) == a - b * CDiv(a, b)

abs(x) == IF x < 0 THEN -x ELSE x

\* Events handed to the input system.
RelativePointerEvent(dx, dy, buttons) ==
    [type |-> "RelativePointer", dx |-> dx, dy |-> dy, buttons |-> buttons]

ScrollWheelEvent(a1, a2, a3) ==
    [type |-> "ScrollWheel", deltaAxis1 |-> a1, deltaAxis2 |-> a2, deltaAxis3 |-> a3]

KeyboardMessage(msg) == [type |-> "KeyboardMessage", message |-> msg]

\* Configuration and state of the touchpad base object for a started device:
\* the defaults listed in init() and setupMaxes(), coordinates in the units the
\* packet processor dispatches (V3 and V5 positions are tripled).
TouchDefaults(md) ==
    LET k == IF md.proto_version \in {ALPS_PROTO_V3, ALPS_PROTO_V5} THEN 3 ELSE 1 IN
    [ \* configuration
      xupmm |-> 50, yupmm |-> 50, clickpadtype |-> 0, fakemiddlebutton |-> TRUE,
      ignoredeltasstart |-> 0, unsmoothinput |-> FALSE, smoothinput |-> FALSE,
      outzone_wt |-> FALSE, z_finger |-> 30, zlimit |-> 255,
      maxaftertyping |-> 500000000,
      zonel |-> 0, zoner |-> k * md.x_max, zoneb |-> 0, zonet |-> k * md.y_max,
      momentumscroll |-> TRUE, momentumscrolltimer |-> 10000000,
      momentumscrollsamplesmin |-> 3,
      maxtaptime |-> 130000000, maxdragtime |-> 230000000,
      maxdbltaptime |-> 130000000,
      clicking |-> TRUE, immediateclick |-> TRUE, rtap |-> TRUE,
      swapdoubletriple |-> FALSE, dragging |-> FALSE, draglock |-> FALSE,
      draglocktempmask |-> 0, dragexitdelay |-> 1000000000, dragTimer |-> TRUE,
      tapthreshx |-> 50, tapthreshy |-> 50, dblthreshx |-> 100, dblthreshy |-> 100,
      divisorx |-> 2, divisory |-> 2, bogusdxthresh |-> 400, bogusdythresh |-> 350,
      wsticky |-> FALSE, palm |-> TRUE, palm_wt |-> FALSE,
      wvdivisor |-> 30, whdivisor |-> 30, hscroll |-> FALSE,
      scrolldxthresh |-> 0, scrolldythresh |-> 0, swipedx |-> 266, swipedy |-> 266,
      scroll |-> TRUE, vsticky |-> FALSE, hsticky |-> FALSE,
      vscrolldivisor |-> 4, hscrolldivisor |-> 0, cscrolldivisor |-> 0, ctrigger |-> 0,
      ledge |-> 0, tedge |-> 0, redge |-> k * md.x_max - 250, bedge |-> k * md.y_max,
      centerx |-> (k * md.x_max) \div 2, centery |-> (k * md.y_max) \div 2,
      \* state
      touchmode |-> "MODE_NOTOUCH", lastbuttons |-> 0, last_fingers |-> 0,
      ignoredeltas |-> 0, ignoreall |-> FALSE, keytime |-> 0,
      passbuttons |-> 0, modifierdown |-> 0,
      x_undo |-> <<>>, y_undo |-> <<>>, x_avg |-> <<>>, y_avg |-> <<>>,
      lastx |-> 0, lasty |-> 0, lastx2 |-> 0, lasty2 |-> 0,
      xrest |-> 0, yrest |-> 0, scrollrest |-> 0,
      xmoved |-> 0, ymoved |-> 0,
      inSwipeLeft |-> 0, inSwipeRight |-> 0, inSwipeUp |-> 0, inSwipeDown |-> 0,
      inSwipe4Left |-> 0, inSwipe4Right |-> 0, inSwipe4Up |-> 0, inSwipe4Down |-> 0,
      touchtime |-> 0, untouchtime |-> 0, touchx |-> 0, touchy |-> 0,
      tracksecondary |-> FALSE, wasdouble |-> FALSE, wastriple |-> FALSE,
      draglocktemp |-> 0, dragTimerArmed |-> FALSE,
      dy_history |-> <<>>, time_history |-> <<>>,
      momentumscrollinterval |-> 0, momentumscrollsum |-> 0,
      momentumscrollcurrent |-> 0, momentumscrollrest1 |-> 0,
      momentumscrollrest2 |-> 0, scrollTimerSets |-> 0, timerLog |-> <<>>,
      now_ns |-> 1000000000 ]

\* Modes in which a contact is being followed.
isTouchMode(t) ==
    t.touchmode \in {"MODE_MOVE", "MODE_VSCROLL", "MODE_HSCROLL", "MODE_CSCROLL",
                     "MODE_MTOUCH", "MODE_DRAG", "MODE_DRAGLOCK"}

isFingerTouch(t, z) == z > t.z_finger

\* Virtual middle button from left and right held together.
middleButton(t, buttons) ==
    IF t.fakemiddlebutton /\ BitAnd(buttons, 3) = 3
    THEN BitOr(buttons - 3, 4) ELSE buttons

RECURSIVE SeqSum(_)
SeqSum(s) == IF s = <<>> THEN 0 ELSE Head(s) + SeqSum(Tail(s))

\* The history and averaging filters of the base object.
HistoryNewest(h) == IF h = <<>> THEN 0 ELSE h[Len(h)]

HistoryOldest(h) == IF h = <<>> THEN 0 ELSE h[1]

\* Moving average: the mean of the samples since the last reset.
AverageFilter(h, v) ==
    LET h1 == Append(h, v) IN [h |-> h1, out |-> CDiv(SeqSum(h1), Len(h1))]

\* Undo of the hardware's halving average: 2 * sample - previous sample.
UndecayFilter(h, v) ==
    [h |-> <<v>>, out |-> IF h = <<>> THEN v ELSE 2 * v - h[1]]

ResetFilters(t) ==
    [t EXCEPT !.x_undo = <<>>, !.y_undo = <<>>, !.x_avg = <<>>, !.y_avg = <<>>]

\* scale x & y to the axis which has the most resolution
ScaleX(t, xraw) == IF t.xupmm < t.yupmm THEN CDiv(xraw * t.yupmm, t.xupmm) ELSE xraw

ScaleY(t, yraw) == IF t.xupmm > t.yupmm THEN CDiv(yraw * t.xupmm, t.yupmm) ELSE yraw

\* allow middle button to be simulated with two buttons down
PrepareButtons(t, fingers, buttonsraw) ==
    IF t.last_fingers = 0 /\ fingers > 0
    THEN middleButton(t, BitOr(buttonsraw, t.passbuttons))
    ELSE IF t.clickpadtype = 0 \/ fingers = 3
    THEN middleButton(t, buttonsraw) ELSE buttonsraw

\* ignore deltas for a while after finger change
StartIgnoringDeltas(t, fingers, buttonsraw) ==
    [t EXCEPT !.lastbuttons = buttonsraw,
              !.ignoredeltas =
                  IF t.last_fingers > 0 /\ fingers > 0 /\ t.last_fingers # fingers
                  THEN t.ignoredeltasstart ELSE @]

\* reset averages after finger change
FingerChange(t, fingers) == IF t.last_fingers # fingers THEN ResetFilters(t) ELSE t

\* unsmooth, then smooth, one axis: <<undo history, average history, value>>
FilterAxis(t, undo, avg, raw) ==
    LET u == IF t.unsmoothinput THEN UndecayFilter(undo, raw)
             ELSE [h |-> undo, out |-> raw]
    IN IF t.smoothinput
       THEN [undo |-> u.h, avg |-> AverageFilter(avg, u.out).h,
             out |-> AverageFilter(avg, u.out).out]
       ELSE [undo |-> u.h, avg |-> avg, out |-> u.out]

FilterInput(t, fx, fy) ==
    [t |-> [t EXCEPT !.x_undo = fx.undo, !.y_undo = fy.undo,
                     !.x_avg = fx.avg, !.y_avg = fy.avg],
     x |-> fx.out, y |-> fy.out]

IgnoreDeltas(t, x, y) ==
    IF t.ignoredeltas # 0
    THEN IF t.ignoredeltas - 1 = 0
         THEN ResetFilters([t EXCEPT !.lastx = x, !.lasty = y, !.ignoredeltas = @ - 1])
         ELSE [t EXCEPT !.lastx = x, !.lasty = y, !.ignoredeltas = @ - 1]
    ELSE t

\* Mutation: the rule applies inside the zone.
OutsideZoneAfterTyping_Inside(t, x, y, z) ==
    /\ t.outzone_wt
    /\ z > t.z_finger
    /\ t.now_ns - t.keytime < t.maxaftertyping
    /\ ~(x < t.zonel \/ x > t.zoner \/ y < t.zoneb \/ y > t.zonet)

\* deal with "OutsidezoneNoAction When Typing"
OutsideZoneAfterTyping(t, x, y, z) ==
    /\ t.outzone_wt
    /\ z > t.z_finger
    /\ t.now_ns - t.keytime < t.maxaftertyping
    /\ (x < t.zonel \/ x > t.zoner \/ y < t.zoneb \/ y > t.zonet)

prepareFiltered(fi, xraw, yraw, z, buttons) ==
    [t |-> IgnoreDeltas(fi.t, fi.x, fi.y), xraw |-> xraw, yraw |-> yraw,
     x |-> fi.x, y |-> fi.y, buttons |-> buttons,
     ignored |-> OutsideZoneAfterTyping(fi.t, fi.x, fi.y, z) \/ fi.t.ignoreall]

prepareInput(t, t2, xraw, yraw, z, fingers, buttonsraw) ==
    prepareFiltered(FilterInput(t2, FilterAxis(t2, t2.x_undo, t2.x_avg, xraw),
                                FilterAxis(t2, t2.y_undo, t2.y_avg, yraw)),
                    xraw, yraw, z, PrepareButtons(t, fingers, buttonsraw))

\* dispatchEventsWithInfo up to its two early returns: axis scaling, middle
\* button, filters, ignored deltas, input ignored after typing or wholesale.
dispatchPrepare(t, xraw0, yraw0, z, fingers, buttonsraw) ==
    prepareInput(t, FingerChange(StartIgnoringDeltas(t, fingers, buttonsraw), fingers),
                 ScaleX(t, xraw0), ScaleY(t, yraw0), z, fingers, buttonsraw)

\* The calls made on the timer event sources, as entries of timerLog.
SetTimer(timer) == [op |-> "setTimerTimeout", timer |-> timer]

CancelTimer(timer) == [op |-> "cancelTimer", timer |-> timer]

\* dy_history.count() > momentumscrollsamplesmin
EnoughSamples(t) == Len(t.dy_history) > t.momentumscrollsamplesmin

\* check for scroll momentum start
momentumStart(t) ==
    IF t.touchmode = "MODE_MTOUCH" /\ t.momentumscroll /\ t.momentumscrolltimer # 0
    THEN IF EnoughSamples(t)
         THEN LET interval == HistoryNewest(t.time_history) - HistoryOldest(t.time_history)
                  t1 == [t EXCEPT !.momentumscrollinterval = interval]
              IN IF interval # 0
                 THEN [t1 EXCEPT !.momentumscrollsum = SeqSum(t.dy_history),
                                 !.momentumscrollcurrent =
                                     t.momentumscrolltimer * (-SeqSum(t.dy_history)),
                                 !.momentumscrollrest1 = 0,
                                 !.momentumscrollrest2 = 0,
                                 !.scrollTimerSets = @ + 1,
                                 !.timerLog = Append(@, SetTimer("scrollTimer"))]
                 ELSE t1
         ELSE t
    ELSE t

\* The button a tap stands for after a double or triple touch.
TapButtons(t, buttons) ==
    IF t.wastriple /\ t.rtap THEN BitOr(buttons, IF ~t.swapdoubletriple THEN 4 ELSE 2)
    ELSE IF t.wasdouble /\ t.rtap THEN BitOr(buttons, IF ~t.swapdoubletriple THEN 2 ELSE 4)
    ELSE BitOr(buttons, 1)

\* last_fingers == 1 && fingers == 0
TapReleased(t, fingers) == t.last_fingers = 1 /\ fingers = 0

\* The lift happened within the tap time and tapping is enabled.
liftWithinTap(t, lastz, fingers, buttons) ==
    CASE t.touchmode = "MODE_DRAG" ->
           LET b1 == IF ~t.immediateclick THEN buttons - (buttons % 8) ELSE buttons
           IN [t |-> [t EXCEPT !.touchmode = "MODE_NOTOUCH"],
               buttons |-> TapButtons(t, b1),
               ev |-> IF ~t.immediateclick
                      THEN <<RelativePointerEvent(0, 0, BitOr(b1, 1)),
                             RelativePointerEvent(0, 0, b1)>>
                      ELSE <<>>]
      [] t.touchmode = "MODE_DRAGLOCK" ->
           [t |-> [t EXCEPT !.touchmode = "MODE_NOTOUCH"], buttons |-> buttons, ev |-> <<>>]
      [] OTHER ->
           IF t.wastriple /\ t.rtap
           THEN [t |-> [t EXCEPT !.touchmode = "MODE_NOTOUCH"],
                 buttons |-> BitOr(buttons, IF ~t.swapdoubletriple THEN 4 ELSE 2),
                 ev |-> <<>>]
           ELSE IF t.wasdouble /\ t.rtap
           THEN IF lastz = 126 /\ t.last_fingers = 2 /\ fingers = 0
                THEN [t |-> [t EXCEPT !.touchmode = "MODE_NOTOUCH"],
                      buttons |-> BitOr(buttons, IF ~t.swapdoubletriple THEN 2 ELSE 4),
                      ev |-> <<>>]
                ELSE [t |-> t, buttons |-> buttons, ev |-> <<>>]
           ELSE IF TapReleased(t, fingers)
                THEN [t |-> [t EXCEPT !.touchmode =
                                 IF t.dragging THEN "MODE_PREDRAG" ELSE "MODE_NOTOUCH"],
                      buttons |-> BitOr(buttons, 1),
                      ev |-> <<>>]
                ELSE [t |-> t, buttons |-> buttons, ev |-> <<>>]

liftAfterTapTime(t) ==
    IF /\ t.touchmode \in {"MODE_DRAG", "MODE_DRAGLOCK"}
       /\ (t.draglock \/ t.draglocktemp # 0 \/ (t.dragTimer /\ t.dragexitdelay # 0))
    THEN [t EXCEPT !.touchmode = "MODE_DRAGNOTOUCH",
                   !.dragTimerArmed = IF ~t.draglock /\ t.draglocktemp = 0 THEN TRUE ELSE @,
                   !.timerLog = IF ~t.draglock /\ t.draglocktemp = 0
                                THEN @ \o <<CancelTimer("dragTimer"), SetTimer("dragTimer")>>
                                ELSE @]
    ELSE [t EXCEPT !.touchmode = "MODE_NOTOUCH", !.draglocktemp = 0]

\* Finger has been lifted: z < z_finger while in a touch mode.
LiftDetected(t, z) == z < t.z_finger /\ isTouchMode(t)

liftReset(t) ==
    [t EXCEPT !.xrest = 0, !.yrest = 0, !.scrollrest = 0,
              !.inSwipeLeft = 0, !.inSwipeRight = 0, !.inSwipeUp = 0,
              !.inSwipeDown = 0, !.inSwipe4Left = 0, !.inSwipe4Right = 0,
              !.inSwipe4Up = 0, !.inSwipe4Down = 0,
              !.xmoved = 0, !.ymoved = 0, !.untouchtime = t.now_ns,
              !.tracksecondary = FALSE]

liftResetHistory(t) == [t EXCEPT !.time_history = <<>>, !.dy_history = <<>>]

liftResolve(t, lastz, fingers, buttons) ==
    IF t.now_ns - t.touchtime < t.maxtaptime /\ t.clicking
    THEN liftWithinTap(t, lastz, fingers, buttons)
    ELSE [t |-> liftAfterTapTime(t), buttons |-> buttons, ev |-> <<>>]

liftFinish(r) ==
    [t |-> [r.t EXCEPT !.wasdouble = FALSE, !.wastriple = FALSE],
     buttons |-> r.buttons, ev |-> r.ev]

dispatchLift(t, lastz, z, fingers, buttons) ==
    IF ~LiftDetected(t, z) THEN [t |-> t, buttons |-> buttons, ev |-> <<>>]
    ELSE liftFinish(liftResolve(liftResetHistory(momentumStart(liftReset(t))),
                                lastz, fingers, buttons))

\* cancel tap if touch point moves too far
dispatchTapCancel(t, xraw, yraw, z) ==
    IF isTouchMode(t) /\ isFingerTouch(t, z)
    THEN LET dx == IF xraw > t.touchx THEN xraw - t.touchx ELSE t.touchx - xraw
             dy == IF yraw > t.touchy THEN t.touchy - yraw ELSE yraw - t.touchy
         IN IF ~t.wasdouble /\ ~t.wastriple /\ (dx > t.tapthreshx \/ dy > t.tapthreshy)
            THEN [t EXCEPT !.touchtime = 0]
            ELSE IF dx > t.dblthreshx \/ dy > t.dblthreshy
            THEN [t EXCEPT !.touchtime = 0]
            ELSE t
    ELSE t

AfterTyping(t) == t.palm_wt /\ t.now_ns - t.keytime < t.maxaftertyping

Motion(t, dx, dy, buttons, ev) == [t |-> t, dx |-> dx, dy |-> dy, buttons |-> buttons, ev |-> ev]

\* Mutation: the remainders of the division are dropped.
motionMove_NoRest(t, x, y, fingers, buttons) ==
    IF t.last_fingers = fingers /\ t.now_ns - t.touchtime > 100000000
    THEN LET dx == x - t.lastx + t.xrest
             dy == y - t.lasty + t.yrest
         IN IF abs(dx) > t.bogusdxthresh \/ abs(dy) > t.bogusdythresh
            THEN Motion([t EXCEPT !.xrest = 0, !.yrest = 0], 0, 0, buttons, <<>>)
            ELSE Motion([t EXCEPT !.xrest = 0, !.yrest = 0], dx, dy, buttons, <<>>)
    ELSE Motion(t, 0, 0, buttons, <<>>)

\* case MODE_MOVE (also reached from MODE_DRAG and MODE_DRAGLOCK)
motionMove(t, x, y, fingers, buttons) ==
    IF t.last_fingers = fingers /\ t.now_ns - t.touchtime > 100000000
    THEN LET dx == x - t.lastx + t.xrest
             dy == y - t.lasty + t.yrest
         IN IF abs(dx) > t.bogusdxthresh \/ abs(dy) > t.bogusdythresh
            THEN Motion([t EXCEPT !.xrest = 0, !.yrest = 0], 0, 0, buttons, <<>>)
            ELSE Motion([t EXCEPT !.xrest = CRem(dx, t.divisorx),
                                  !.yrest = CRem(dy, t.divisory)], dx, dy, buttons, <<>>)
    ELSE Motion(t, 0, 0, buttons, <<>>)

\* case 2 of MODE_MTOUCH (case 1 falls through to it)
motionTwoFinger(t, x, y, z, fingers, buttons) ==
    IF t.last_fingers # fingers \/ (t.palm /\ z > t.zlimit) \/ AfterTyping(t)
    THEN Motion(t, 0, 0, buttons, <<>>)
    ELSE
    LET h == t.whdivisor # 0 /\ t.hscroll
        dy == IF t.wvdivisor # 0 THEN y - t.lasty + t.yrest ELSE 0
        dx == IF h THEN x - t.lastx + t.xrest ELSE 0
        yrest == IF t.wvdivisor # 0 THEN CRem(dy, t.wvdivisor) ELSE 0
        xrest == IF h THEN CRem(dx, t.whdivisor) ELSE 0
        turned == (dy < 0) # (HistoryNewest(t.dy_history) < 0) \/ dy = 0
        dyh == Append(IF turned THEN <<>> ELSE t.dy_history, dy)
        th == Append(IF turned THEN <<>> ELSE t.time_history, t.now_ns)
        smalldx == abs(dx) < t.scrolldxthresh
        smalldy == abs(dy) < t.scrolldythresh
        dx1 == IF smalldx THEN 0 ELSE dx
        dy1 == IF smalldy THEN 0 ELSE dy
        t1 == [t EXCEPT !.yrest = IF smalldy THEN dy ELSE yrest,
                        !.xrest = IF smalldx THEN dx ELSE xrest,
                        !.dy_history = dyh, !.time_history = th]
    IN Motion(t1, 0, 0, buttons,
              IF dy1 # 0 \/ dx1 # 0
              THEN <<ScrollWheelEvent(IF t.wvdivisor # 0 THEN CDiv(-dy1, t.wvdivisor) ELSE 0,
                                      IF h THEN CDiv(-dx1, t.whdivisor) ELSE 0, 0)>>
              ELSE <<>>)

\* Mutation: the latch of the three finger swipe itself is not consulted.
SwipeFree_FourOnly(latch, latch4) == latch4 = 0

\* Mutation: the latch of the four finger swipe is not consulted.
SwipeFree_ThreeOnly(latch, latch4) == latch = 0

\* !inSwipeUp && !inSwipe4Up, and so for each direction
SwipeFree(latch, latch4) == latch = 0 /\ latch4 = 0

\* case 3 of MODE_MTOUCH: three finger swipes
motionThreeFinger(t, x, y, buttons) ==
    LET t1 == [t EXCEPT !.xmoved = @ + x - t.lastx, !.ymoved = @ + y - t.lasty]
    IN IF t1.ymoved < -t1.swipedy /\ SwipeFree(t1.inSwipeUp, t1.inSwipe4Up)
       THEN Motion([t1 EXCEPT !.inSwipeUp = 1, !.inSwipeDown = 0, !.ymoved = 0],
                   0, 0, buttons, <<KeyboardMessage("kPS2M_swipeUp")>>)
       ELSE IF t1.ymoved > t1.swipedy /\ SwipeFree(t1.inSwipeDown, t1.inSwipe4Down)
       THEN Motion([t1 EXCEPT !.inSwipeDown = 1, !.inSwipeUp = 0, !.ymoved = 0],
                   0, 0, buttons, <<KeyboardMessage("kPS2M_swipeDown")>>)
       ELSE IF t1.xmoved > t1.swipedx /\ SwipeFree(t1.inSwipeRight, t1.inSwipe4Right)
       THEN Motion([t1 EXCEPT !.inSwipeRight = 1, !.inSwipeLeft = 0, !.xmoved = 0],
                   0, 0, buttons, <<KeyboardMessage("kPS2M_swipeRight")>>)
       ELSE IF t1.xmoved < -t1.swipedx /\ SwipeFree(t1.inSwipeLeft, t1.inSwipe4Left)
       THEN Motion([t1 EXCEPT !.inSwipeLeft = 1, !.inSwipeRight = 0, !.xmoved = 0],
                   0, 0, buttons, <<KeyboardMessage("kPS2M_swipeLeft")>>)
       ELSE Motion(t1, 0, 0, buttons, <<>>)

\* case 4 of MODE_MTOUCH: four finger swipes
motionFourFinger(t, x, y, buttons) ==
    LET t1 == [t EXCEPT !.xmoved = @ + x - t.lastx, !.ymoved = @ + y - t.lasty]
    IN IF t1.ymoved < -t1.swipedy /\ t1.inSwipe4Up = 0
       THEN Motion([t1 EXCEPT !.inSwipe4Up = 1, !.inSwipeUp = 0, !.inSwipe4Down = 0,
                              !.ymoved = 0],
                   0, 0, buttons, <<KeyboardMessage("kPS2M_swipe4Up")>>)
       ELSE IF t1.ymoved > t1.swipedy /\ t1.inSwipe4Down = 0
       THEN Motion([t1 EXCEPT !.inSwipe4Down = 1, !.inSwipeDown = 0, !.inSwipe4Up = 0,
                              !.ymoved = 0],
                   0, 0, buttons, <<KeyboardMessage("kPS2M_swipe4Down")>>)
       ELSE IF t1.xmoved > t1.swipedx /\ t1.inSwipe4Right = 0
       THEN Motion([t1 EXCEPT !.inSwipe4Right = 1, !.inSwipeRight = 0, !.inSwipe4Left = 0,
                              !.xmoved = 0],
                   0, 0, buttons, <<KeyboardMessage("kPS2M_swipe4Right")>>)
       ELSE IF t1.xmoved < -t1.swipedx /\ t1.inSwipe4Left = 0
       THEN Motion([t1 EXCEPT !.inSwipe4Left = 1, !.inSwipeLeft = 0, !.inSwipe4Right = 0,
                              !.xmoved = 0],
                   0, 0, buttons, <<KeyboardMessage("kPS2M_swipe4Left")>>)
       ELSE Motion(t1, 0, 0, buttons, <<>>)

\* Mutation: one finger is met with sticky multi-touch only.
BackToMove_Sticky(t, fingers) == fingers = 1 /\ t.last_fingers = fingers /\ t.wsticky

\* case 1 of MODE_MTOUCH: transition from multitouch to single touch
BackToMove(t, fingers) == fingers = 1 /\ t.last_fingers = fingers /\ ~t.wsticky

motionMultiTouch(t, x, y, z, fingers, buttons) ==
    IF BackToMove(t, fingers)
    THEN Motion([t EXCEPT !.dy_history = <<>>, !.time_history = <<>>,
                          !.touchmode = "MODE_MOVE"], 0, 0, buttons, <<>>)
    ELSE IF fingers \in {1, 2} THEN motionTwoFinger(t, x, y, z, fingers, buttons)
    ELSE IF fingers = 3 THEN motionThreeFinger(t, x, y, buttons)
    ELSE IF fingers = 4 THEN motionFourFinger(t, x, y, buttons)
    ELSE Motion(t, 0, 0, buttons, <<>>)

\* Mutation: the sticky setting is not consulted.
ScrollLeft_Always(t, sticky, outside, z, fingers) ==
    outside \/ fingers > 1 \/ z > t.zlimit

\* the test that opens MODE_VSCROLL and MODE_HSCROLL: switch back to notouch
ScrollLeft(t, sticky, outside, z, fingers) ==
    ~sticky /\ (outside \/ fingers > 1 \/ z > t.zlimit)

motionVScroll(t, x, y, z, fingers, buttons) ==
    IF ScrollLeft(t, t.vsticky, x < t.redge, z, fingers)
    THEN Motion([t EXCEPT !.touchmode = "MODE_NOTOUCH"], 0, 0, buttons, <<>>)
    ELSE IF AfterTyping(t) THEN Motion(t, 0, 0, buttons, <<>>)
    ELSE LET dy == y - t.lasty + t.scrollrest
             small == abs(dy) < t.scrolldythresh
             dy1 == IF small THEN 0 ELSE dy
         IN Motion([t EXCEPT !.scrollrest = IF small THEN dy ELSE CRem(dy, t.vscrolldivisor)],
                   0, 0, buttons,
                   IF dy1 # 0 THEN <<ScrollWheelEvent(CDiv(-dy1, t.vscrolldivisor), 0, 0)>>
                   ELSE <<>>)

motionHScroll(t, x, y, z, fingers, buttons) ==
    IF ScrollLeft(t, t.hsticky, y < t.bedge, z, fingers)
    THEN Motion([t EXCEPT !.touchmode = "MODE_NOTOUCH"], 0, 0, buttons, <<>>)
    ELSE IF AfterTyping(t) THEN Motion(t, 0, 0, buttons, <<>>)
    ELSE LET dx == x - t.lastx + t.scrollrest
             small == abs(dx) < t.scrolldxthresh
             dx1 == IF small THEN 0 ELSE dx
         IN Motion([t EXCEPT !.scrollrest = IF small THEN dx ELSE CRem(dx, t.hscrolldivisor)],
                   0, 0, buttons,
                   IF dx1 # 0 THEN <<ScrollWheelEvent(0, CDiv(dx1, t.hscrolldivisor), 0)>>
                   ELSE <<>>)

motionCScroll(t, x, y, buttons) ==
    IF AfterTyping(t) THEN Motion(t, 0, 0, buttons, <<>>)
    ELSE LET d0 == IF y < t.centery THEN x - t.lastx ELSE t.lastx - x
             dx == IF x < t.centerx THEN d0 + t.lasty - y
                   ELSE d0 + y - t.lasty + t.scrollrest
             rest == IF x < t.centerx THEN t.scrollrest ELSE CRem(dx, t.cscrolldivisor)
             small == abs(dx) < t.scrolldxthresh
             dx1 == IF small THEN 0 ELSE dx
         IN Motion([t EXCEPT !.scrollrest = IF small THEN dx ELSE rest],
                   0, 0, buttons,
                   IF dx1 # 0 THEN <<ScrollWheelEvent(CDiv(dx1, t.cscrolldivisor), 0, 0)>>
                   ELSE <<>>)

\* switch (touchmode): the motion of the sample in the current mode
dispatchMotion(t, x, y, z, fingers, buttons) ==
    CASE t.touchmode \in {"MODE_DRAG", "MODE_DRAGLOCK"} ->
           motionMove(t, x, y, fingers,
                      IF \/ t.touchmode = "MODE_DRAGLOCK"
                         \/ ~t.immediateclick
                         \/ t.now_ns - t.touchtime > t.maxdbltaptime
                      THEN BitOr(buttons, 1) ELSE buttons)
      [] t.touchmode = "MODE_MOVE" -> motionMove(t, x, y, fingers, buttons)
      [] t.touchmode = "MODE_MTOUCH" -> motionMultiTouch(t, x, y, z, fingers, buttons)
      [] t.touchmode = "MODE_VSCROLL" -> motionVScroll(t, x, y, z, fingers, buttons)
      [] t.touchmode = "MODE_HSCROLL" -> motionHScroll(t, x, y, z, fingers, buttons)
      [] t.touchmode = "MODE_CSCROLL" -> motionCScroll(t, x, y, buttons)
      [] t.touchmode = "MODE_DRAGNOTOUCH" ->
           Motion(t, 0, 0, BitOr(buttons, 1), <<>>)
      [] t.touchmode = "MODE_PREDRAG" ->
           Motion(t, 0, 0,
                  IF ~t.immediateclick /\ (~t.palm_wt \/ t.now_ns - t.keytime >= t.maxaftertyping)
                  THEN BitOr(buttons, 1) ELSE buttons, <<>>)
      [] OTHER -> Motion(t, 0, 0, buttons, <<>>)

\* The corner-scroll trigger configured (ctrigger 1..9) is met.
CornerTrigger(t, x, y) ==
    \/ y > t.tedge /\ t.ctrigger \in {1, 9}
    \/ y > t.tedge /\ x > t.redge /\ t.ctrigger = 2
    \/ x > t.redge /\ t.ctrigger \in {3, 9}
    \/ x > t.redge /\ y < t.bedge /\ t.ctrigger = 4
    \/ y < t.bedge /\ t.ctrigger \in {5, 9}
    \/ y < t.bedge /\ x < t.ledge /\ t.ctrigger = 6
    \/ x < t.ledge /\ t.ctrigger \in {7, 9}
    \/ x < t.ledge /\ y > t.tedge /\ t.ctrigger = 8

\* Mutation: the vertical scroll edge is the left one.
VScrollEdge_Left(t, x, y, z) ==
    /\ (t.touchmode = "MODE_NOTOUCH" \/ (t.touchmode = "MODE_HSCROLL" /\ y >= t.bedge))
    /\ z > t.z_finger /\ x < t.ledge /\ t.vscrolldivisor # 0 /\ t.scroll

\* switch to vscroll touchmode
VScrollEdge(t, x, y, z) ==
    /\ (t.touchmode = "MODE_NOTOUCH" \/ (t.touchmode = "MODE_HSCROLL" /\ y >= t.bedge))
    /\ z > t.z_finger /\ x > t.redge /\ t.vscrolldivisor # 0 /\ t.scroll

HScrollEdge(t, x, y, z) ==
    /\ (t.touchmode = "MODE_NOTOUCH" \/ (t.touchmode = "MODE_VSCROLL" /\ x <= t.redge))
    /\ z > t.z_finger /\ y > t.bedge /\ t.hscrolldivisor # 0 /\ t.hscroll /\ t.scroll

\* capture time of tap, and watch for double/triple tap
captureTouch(t, x, y, z, fingers) ==
    IF ~isFingerTouch(t, z) THEN t
    ELSE IF (~t.palm_wt \/ t.now_ns - t.keytime >= t.maxaftertyping)
            /\ t.momentumscrollcurrent = 0
    THEN [t EXCEPT !.touchtime = IF ~isTouchMode(t) THEN t.now_ns ELSE @,
                   !.touchx = IF ~isTouchMode(t) THEN x ELSE @,
                   !.touchy = IF ~isTouchMode(t) THEN y ELSE @,
                   !.wasdouble = IF fingers = 2 THEN TRUE ELSE @,
                   !.wastriple = IF fingers = 3 THEN TRUE ELSE @,
                   !.momentumscrollcurrent = 0]
    ELSE [t EXCEPT !.momentumscrollcurrent = 0]

switchDrag(t, z) ==
    IF t.touchmode = "MODE_PREDRAG" /\ isFingerTouch(t, z)
    THEN [t EXCEPT !.touchmode = "MODE_DRAG",
                   !.draglocktemp = BitAnd(t.modifierdown, t.draglocktempmask)]
    ELSE t

\* Mutation: the drag timer is left pending.
switchDragLock_TimerKept(t, z) ==
    IF t.touchmode = "MODE_DRAGNOTOUCH" /\ isFingerTouch(t, z)
    THEN [t EXCEPT !.touchmode = "MODE_DRAGLOCK"]
    ELSE t

switchDragLock(t, z) ==
    IF t.touchmode = "MODE_DRAGNOTOUCH" /\ isFingerTouch(t, z)
    THEN [t EXCEPT !.touchmode = "MODE_DRAGLOCK",
                   !.dragTimerArmed = IF t.dragTimer THEN FALSE ELSE @,
                   !.timerLog = IF t.dragTimer THEN Append(@, CancelTimer("dragTimer"))
                                ELSE @]
    ELSE t

switchMultiTouch(t, z, fingers) ==
    IF t.touchmode # "MODE_MTOUCH" /\ fingers > 1 /\ isFingerTouch(t, z)
    THEN [t EXCEPT !.touchmode = "MODE_MTOUCH", !.tracksecondary = FALSE]
    ELSE t

switchCornerScroll(t, x, y, z) ==
    IF /\ t.scroll /\ t.cscrolldivisor # 0
       /\ t.touchmode = "MODE_NOTOUCH" /\ z > t.z_finger
       /\ CornerTrigger(t, x, y)
    THEN [t EXCEPT !.touchmode = "MODE_CSCROLL"]
    ELSE t

switchVScroll(t, x, y, z) ==
    IF VScrollEdge(t, x, y, z)
    THEN [t EXCEPT !.touchmode = "MODE_VSCROLL", !.scrollrest = 0]
    ELSE t

switchHScroll(t, x, y, z) ==
    IF HScrollEdge(t, x, y, z)
    THEN [t EXCEPT !.touchmode = "MODE_HSCROLL", !.scrollrest = 0]
    ELSE t

\* Mutation: MODE_NOTOUCH is left for an edge or corner mode only.
switchMove_Never(t, z) == t

switchMove(t, z) ==
    IF t.touchmode = "MODE_NOTOUCH" /\ z > t.z_finger
    THEN [t EXCEPT !.touchmode = "MODE_MOVE"]
    ELSE t

\* capture time of tap, watch for double/triple tap, then switch modes
dispatchModeSwitch(t, x, y, z, fingers) ==
    switchMove(
        switchHScroll(
            switchVScroll(
                switchCornerScroll(
                    switchMultiTouch(
                        switchDragLock(
                            switchDrag(captureTouch(t, x, y, z, fingers), z), z),
                        z, fingers),
                    x, y, z),
                x, y, z),
            x, y, z),
        z)

\* cancel pre-drag mode if second tap takes too long
cancelPreDrag(t) ==
    IF t.touchmode = "MODE_PREDRAG" /\ t.now_ns - t.untouchtime >= t.maxdragtime
    THEN [t EXCEPT !.touchmode = "MODE_NOTOUCH"]
    ELSE t

\* dispatch dx/dy and current button status; save last seen position
dispatchDone(p, c, m, t, liftev, lift, z, fingers) ==
    [t |-> [t EXCEPT !.lastx = p.x, !.lasty = p.y, !.last_fingers = fingers],
     atMotion |-> c, motion |-> m,
     lastz |-> z,
     ev |-> liftev \o m.ev
            \o <<RelativePointerEvent(CDiv(m.dx, t.divisorx), CDiv(m.dy, t.divisory),
                                      m.buttons)>>,
     ignored |-> FALSE, lift |-> lift, x |-> p.x, y |-> p.y]

dispatchMoved(p, c, m, liftev, lift, z, fingers) ==
    dispatchDone(p, c, m, dispatchModeSwitch(m.t, p.x, p.y, z, fingers), liftev, lift,
                 z, fingers)

\* c is the gesture state the switch (touchmode) is entered with
dispatchCancelled(p, l, c, z, fingers) ==
    dispatchMoved(p, c, dispatchMotion(c, p.x, p.y, z, fingers, l.buttons),
                  l.ev, LiftDetected(p.t, z), z, fingers)

dispatchLifted(p, l, z, fingers) ==
    dispatchCancelled(p, l, dispatchTapCancel(cancelPreDrag(l.t), p.xraw, p.yraw, z),
                      z, fingers)

dispatchPrepared(p, lastz, z, fingers) ==
    IF p.ignored
    THEN [t |-> p.t, lastz |-> lastz, ev |-> <<>>, ignored |-> TRUE,
          lift |-> FALSE, x |-> p.x, y |-> p.y, atMotion |-> <<>>, motion |-> <<>>]
    ELSE dispatchLifted(p, dispatchLift(p.t, lastz, z, fingers, p.buttons), z, fingers)

\* dispatchEventsWithInfo(xraw, yraw, z, fingers, buttonsraw) at uptime now on
\* the gesture state t0 with modelData.lastz = lastz; ev is what it dispatched,
\* in order.
dispatchEventsWithInfo(t0, lastz, now, xraw, yraw, z, fingers, buttonsraw) ==
    dispatchPrepared(dispatchPrepare([t0 EXCEPT !.now_ns = now], xraw, yraw, z,
                                     fingers, buttonsraw),
                     lastz, z, fingers)

(***************************************************************************)
(* Packet processors: processPacketV1V2 and processPacketV3.               *)
(***************************************************************************)
ShiftLeft(a, n) == a * Pow2(n)

ShiftRight(a, n) == a \div Pow2(n)

\* (SInt8) of a byte
SInt8(b) == IF b >= 128 THEN b - 256 ELSE b

\* Truth value of a C integer as 0 or 1 (the !! idiom).
Flag(v) == IF v # 0 THEN 1 ELSE 0

ButtonMask(left, right, middle) ==
    (IF left # 0 THEN 1 ELSE 0) + (IF right # 0 THEN 2 ELSE 0)
        + (IF middle # 0 THEN 4 ELSE 0)

\* Fields of a V1 or V2 packet; packet[i] of the source is p[i + 1].
decodeV1V2(md, p) ==
    LET v1 == md.proto_version = ALPS_PROTO_V1
        left == IF v1 THEN BitAnd(p[3], \H10) ELSE BitAnd(p[4], 1)
        right == IF v1 THEN BitAnd(p[3], \H08) ELSE BitAnd(p[4], 2)
        middle0 == IF v1 THEN 0 ELSE BitAnd(p[4], 4)
        x == IF v1 THEN BitOr(p[2], ShiftLeft(BitAnd(p[1], \H07), 7))
             ELSE BitOr(p[2], ShiftLeft(BitAnd(p[3], \H78), 7 - 3))
        y == IF v1 THEN BitOr(p[5], ShiftLeft(BitAnd(p[4], \H07), 7))
             ELSE BitOr(p[5], ShiftLeft(BitAnd(p[4], \H70), 7 - 4))
        middle == IF BitAnd(md.flags, ALPS_FW_BK_2) # 0
                  THEN Flag(BitAnd(p[3], 4)) * Flag(BitAnd(p[4], 4))
                  ELSE middle0
    IN [x |-> x, y |-> y, z |-> p[6],
        buttons |-> ButtonMask(left, right, middle),
        ges |-> BitAnd(p[3], 1), fin |-> BitAnd(p[3], 2)]

\* (modelData.flags & ALPS_DUALPOINT) && z == 127
IsTrackstickV1V2(md, z) == BitAnd(md.flags, ALPS_DUALPOINT) # 0 /\ z = 127

\* Mutation: the x field is taken unsigned.
TrackstickDx_Unsigned(x) == x

TrackstickDx(x) == IF x > 383 THEN x - 768 ELSE x

TrackstickDy(y) == -(IF y > 255 THEN y - 512 ELSE y)

\* Finger count of a V1/V2 sample from its pressure.
FingersFromZ(z) == IF z > 0 THEN (IF z >= 98 THEN 2 ELSE 1) ELSE 0

touchpadDoneV1V2(md, t1, p, d, z, fingers, r) ==
    [md |-> [md EXCEPT !.prev_fin = d.fin, !.lastz = r.lastz],
     t |-> r.t, trackstick |-> FALSE,
     sample |-> [mode0 |-> t1.touchmode, xraw |-> d.x, yraw |-> d.y, x |-> r.x,
                 y |-> r.y, z |-> z, fingers |-> fingers, buttons |-> d.buttons,
                 ignored |-> r.ignored, lift |-> r.lift, t0 |-> t1, ev |-> r.ev,
                 atMotion |-> r.atMotion, motion |-> r.motion],
     ev |-> r.ev \o IF /\ BitAnd(md.flags, ALPS_WHEEL) # 0
                       /\ BitAnd(p[3] * 2, \H08) - BitAnd(ShiftRight(p[1], 4), \H07) # 0
                    THEN <<ScrollWheelEvent(BitAnd(p[3] * 2, \H08)
                                              - BitAnd(ShiftRight(p[1], 4), \H07), 0, 0)>>
                    ELSE <<>>]

touchpadV1V2(md, t1, now, p, d, z) ==
    touchpadDoneV1V2(md, t1, p, d, z, FingersFromZ(z),
                     dispatchEventsWithInfo(t1, md.lastz, now, d.x, d.y, z,
                                            FingersFromZ(z), d.buttons))

packetV1V2(md, t, now, p, d) ==
    IF IsTrackstickV1V2(md, d.z)
    THEN [md |-> md, t |-> t, trackstick |-> TRUE, sample |-> <<>>,
          ev |-> <<RelativePointerEvent(TrackstickDx(d.x), TrackstickDy(d.y), d.buttons)>>]
    ELSE touchpadV1V2(md,
                      IF d.ges # 0 /\ d.fin # 0 /\ md.prev_fin = 0
                      THEN [t EXCEPT !.touchmode = "MODE_DRAG"] ELSE t,
                      now, p, d,
                      IF d.ges # 0 /\ d.fin = 0 THEN t.z_finger + 1 ELSE d.z)

processPacketV1V2(md, t, now, p) == packetV1V2(md, t, now, p, decodeV1V2(md, p))

ALPS_QUIRK_TRACKSTICK_BUTTONS == 1

\* Mutation: the trackstick never silences the touchpad.
TrackstickMoving_Never(x, y) == FALSE

\* ignoreall = FALSE; if ((0 != x) || (0 != y)) ignoreall = TRUE;
TrackstickMoving(x, y) == x # 0 \/ y # 0

processTrackstickPacketV3(md, t, p) ==
    IF BitAnd(p[1], \H40) = 0 THEN [md |-> md, t |-> t, ev |-> <<>>]
    ELSE IF p[2] = \H7f /\ p[3] = \H7f /\ p[4] = \H7f THEN [md |-> md, t |-> t, ev |-> <<>>]
    ELSE
    LET x0 == SInt8(BitOr(ShiftLeft(BitAnd(p[1], \H20), 2), BitAnd(p[2], \H7f)))
        y0 == -SInt8(BitOr(ShiftLeft(BitAnd(p[1], \H10), 3), BitAnd(p[3], \H7f)))
        raw_buttons == ButtonMask(BitAnd(p[4], 1), BitAnd(p[4], 2), BitAnd(p[4], 4))
        md1 == IF BitAnd(md.quirks, ALPS_QUIRK_TRACKSTICK_BUTTONS) = 0 /\ raw_buttons # 0
               THEN [md EXCEPT !.quirks = BitOr(@, ALPS_QUIRK_TRACKSTICK_BUTTONS)]
               ELSE md
        big == abs(x0) >= \H7f /\ abs(y0) >= \H7f
        x == IF big THEN 0 ELSE x0
        y == IF big THEN 0 ELSE y0
        buttons == IF raw_buttons = 0 THEN t.lastbuttons ELSE raw_buttons
        t1 == [t EXCEPT !.lastbuttons = buttons, !.lastx2 = x, !.lasty2 = y,
                        !.ignoreall = TrackstickMoving(x, y)]
    IN [md |-> md1, t |-> t1,
        ev |-> IF (x = 0 /\ y = 0) \/ BitAnd(buttons, \H04) = 0
               THEN <<RelativePointerEvent(x + (x \div 2), y + (y \div 2), buttons)>>
               ELSE <<ScrollWheelEvent(-y, -x, 0)>>]

decodeButtonsV3(fields, p) ==
    [fields EXCEPT !.left = Flag(BitAnd(p[4], \H01)), !.right = Flag(BitAnd(p[4], \H02)),
              !.middle = Flag(BitAnd(p[4], \H04)),
              !.ts_left = Flag(BitAnd(p[4], \H10)), !.ts_right = Flag(BitAnd(p[4], \H20)),
              !.ts_middle = Flag(BitAnd(p[4], \H40))]

\* The position fields shared by decodePinnacle and decodeRushmore.
decodePositionV3(fields, p) ==
    decodeButtonsV3(
        [fields EXCEPT !.x = BitOr(BitOr(ShiftLeft(BitAnd(p[2], \H7f), 4),
                                    ShiftRight(BitAnd(p[5], \H30), 2)),
                              ShiftRight(BitAnd(p[1], \H30), 4)),
                  !.y = BitOr(ShiftLeft(BitAnd(p[3], \H7f), 4), BitAnd(p[5], \H0f)),
                  !.z = BitAnd(p[6], \H7f)], p)

decodePinnacle(fields, p) ==
    LET f1 == [fields EXCEPT !.first_mp = Flag(BitAnd(p[5], \H40)),
                        !.is_mp = Flag(BitAnd(p[1], \H40))]
    IN IF f1.is_mp # 0
       THEN [f1 EXCEPT !.fingers = BitAnd(p[6], \H3) + 1,
                       !.x_map = BitOr(BitOr(ShiftLeft(BitAnd(p[5], \H7e), 8),
                                             ShiftLeft(BitAnd(p[2], \H7f), 2)),
                                       ShiftRight(BitAnd(p[1], \H30), 4)),
                       !.y_map = BitOr(BitOr(ShiftLeft(BitAnd(p[4], \H70), 4),
                                             ShiftLeft(BitAnd(p[3], \H7f), 1)),
                                       BitAnd(p[5], \H01))]
       ELSE decodePositionV3(f1, p)

decodeRushmore(fields, p) ==
    LET f1 == [fields EXCEPT !.first_mp = Flag(BitAnd(p[5], \H40)),
                        !.is_mp = Flag(BitAnd(p[6], \H40))]
    IN IF f1.is_mp # 0
       THEN [f1 EXCEPT !.fingers = max(BitAnd(p[6], \H3),
                                       BitAnd(ShiftRight(p[6], 2), \H3)) + 1,
                       !.x_map = BitOr(BitOr(ShiftLeft(BitAnd(p[6], \H10), 11),
                                             ShiftLeft(BitAnd(p[5], \H7e), 8)),
                                       BitOr(ShiftLeft(BitAnd(p[2], \H7f), 2),
                                             ShiftRight(BitAnd(p[1], \H30), 4))),
                       !.y_map = BitOr(BitOr(ShiftLeft(BitAnd(p[6], \H20), 6),
                                             ShiftLeft(BitAnd(p[4], \H70), 4)),
                                       BitOr(ShiftLeft(BitAnd(p[3], \H7f), 1),
                                             BitAnd(p[5], \H01)))]
       ELSE decodePositionV3(f1, p)

decodeDolphin(fields, p) ==
    decodeButtonsV3(
        [fields EXCEPT !.first_mp = Flag(BitAnd(p[1], \H02)),
                  !.is_mp = Flag(BitAnd(p[1], \H20)),
                  !.fingers = BitOr(ShiftRight(BitAnd(p[1], \H6), 1),
                                    ShiftRight(BitAnd(p[1], \H10), 2)),
                  !.x_map = BitOr(BitOr(BitOr(ShiftRight(BitAnd(p[3], \H60), 5),
                                              ShiftLeft(BitAnd(p[5], \H7f), 2)),
                                        BitOr(ShiftLeft(BitAnd(p[6], \H7f), 9),
                                              ShiftLeft(BitAnd(p[4], \H07), 16))),
                                  BitOr(ShiftLeft(BitAnd(p[4], \H70), 15),
                                        ShiftLeft(BitAnd(p[1], \H01), 22))),
                  !.y_map = BitOr(BitAnd(p[2], \H7f), ShiftLeft(BitAnd(p[3], \H1f), 7)),
                  !.x = BitOr(BitAnd(p[2], \H7f), ShiftLeft(BitAnd(p[5], \H0f), 7)),
                  !.y = BitOr(BitAnd(p[3], \H7f), ShiftLeft(BitAnd(p[5], \Hf0), 3)),
                  !.z = IF BitAnd(p[1], 4) # 0 THEN 0 ELSE BitAnd(p[6], \H7f)], p)

\* (this->*decode_fields)(&f, packet)
decodeFields(decode, fields, p) ==
    CASE decode = "decodePinnacle" -> decodePinnacle(fields, p)
      [] decode = "decodeRushmore" -> decodeRushmore(fields, p)
      [] OTHER -> decodeDolphin(fields, p)

\* struct alps_fields f; as a fresh local: every field holds what the stack held.
LocalFields(junk) ==
    [first_mp |-> junk, is_mp |-> junk, fingers |-> junk, x_map |-> junk,
     y_map |-> junk, x |-> junk, y |-> junk, z |-> junk, left |-> junk,
     right |-> junk, middle |-> junk, ts_left |-> junk, ts_right |-> junk,
     ts_middle |-> junk, x1 |-> junk, y1 |-> junk, x2 |-> junk, y2 |-> junk]

\* Mutation: single-touch data is used only when no finger is reported.
UseSingleTouch_NoFinger(fingers) == fingers < 1

\* Use st data when we don't have mt data
UseSingleTouch(fingers) == fingers < 2

NoFrame(md, t) == [md |-> md, t |-> t, ev |-> <<>>, frame |-> FALSE, sample |-> <<>>]

ButtonsV3(md, fields) ==
    BitOr(ButtonMask(fields.left, fields.right, fields.middle),
          IF BitAnd(md.quirks, ALPS_QUIRK_TRACKSTICK_BUTTONS) = 0
          THEN ButtonMask(fields.ts_left, fields.ts_right, fields.ts_middle)
          ELSE 0)

touchpadDoneV3(md, fields, fingers, mt, corner, t, buttons, r) ==
    [md |-> [md EXCEPT !.lastz = r.lastz], t |-> r.t, ev |-> r.ev, frame |-> TRUE,
     sample |-> [mode0 |-> t.touchmode, xraw |-> fields.x1 * 3, yraw |-> fields.y1 * 3,
                 x |-> r.x, y |-> r.y, z |-> fields.z, fingers |-> fingers,
                 buttons |-> buttons, ignored |-> r.ignored, lift |-> r.lift,
                 t0 |-> t, ev |-> r.ev, x_map |-> fields.x_map,
                 y_map |-> fields.y_map, mt |-> mt, corner |-> corner]]

touchpadFrameV3(md, fields, fingers, mt, corner, t, now) ==
    touchpadDoneV3(md, fields, fingers, mt, corner, t, ButtonsV3(md, fields),
                   dispatchEventsWithInfo(t, md.lastz, now, fields.x1 * 3, fields.y1 * 3,
                                          fields.z, fingers, ButtonsV3(md, fields)))

touchpadFieldsV3(md, fields, fingers0, corner, t, now, p) ==
    IF fields.is_mp # 0 THEN NoFrame(md, t)
    ELSE IF md.multi_packet = 0 /\ fields.first_mp # 0
    THEN NoFrame([md EXCEPT !.multi_packet = 1, !.multi_data = p], t)
    ELSE IF UseSingleTouch(fingers0)
    THEN touchpadFrameV3([md EXCEPT !.multi_packet = 0, !.second_touch = -1],
                         [fields EXCEPT !.x1 = fields.x, !.y1 = fields.y],
                         IF fields.z > 0 THEN 1 ELSE 0, FALSE, corner, t, now)
    ELSE touchpadFrameV3([md EXCEPT !.multi_packet = 0], fields, fingers0, TRUE, corner,
                         t, now)

touchpadBitmapV3(b, fingers0, t, now, p) ==
    touchpadFieldsV3(b.md, IF fingers0 = 1 THEN [b.f EXCEPT !.z = 0] ELSE b.f,
                     fingers0, b.corner, t, now, p)

\* Mutation: a bitmap packet is processed whether or not a first packet is stored.
BitmapFollows_Any(md, f0) == f0.is_mp # 0

\* if (modelData.multi_packet) { if (f.is_mp) { ... } }
BitmapFollows(md, f0) == md.multi_packet # 0 /\ f0.is_mp # 0

touchpadDecodedV3(md, decode, t, now, p, f0) ==
    IF md.multi_packet > 2 THEN NoFrame(md, t)
    ELSE IF BitmapFollows(md, f0)
    THEN touchpadBitmapV3(processBitmap(md, decodeFields(decode, f0, md.multi_data)),
                          f0.fingers, t, now, p)
    ELSE touchpadFieldsV3([md EXCEPT !.multi_packet = 0], f0, 0, <<>>, t, now, p)

processTouchpadPacketV3(md, decode, t, now, p, junk) ==
    touchpadDecodedV3(md, decode, t, now, p, decodeFields(decode, LocalFields(junk), p))

processPacketV3(md, decode, t, now, p, junk) ==
    IF p[6] = \H3f
    THEN LET r == processTrackstickPacketV3(md, t, p)
         IN [md |-> r.md, t |-> r.t, ev |-> r.ev, frame |-> FALSE, sample |-> <<>>]
    ELSE processTouchpadPacketV3(md, decode, t, now, p, junk)

\* if (packet[6] & 0x40): sync, reset position
\* Mutation: the sync bit is taken from bit 7.
SyncV4_Bit7(md, p) ==
    IF BitAnd(p[7], \H80) # 0 THEN [md EXCEPT !.multi_packet = 0] ELSE md

SyncV4(md, p) ==
    IF BitAnd(p[7], \H40) # 0 THEN [md EXCEPT !.multi_packet = 0] ELSE md

\* offset = 2 * multi_packet; multi_data[offset] is element offset + 1 here.
StoreFragmentV4(md, p) ==
    [md EXCEPT !.multi_data[2 * md.multi_packet + 1] = p[7],
               !.multi_data[2 * md.multi_packet + 2] = p[8]]

\* x_bitmap and y_bitmap of the six accumulated bytes d[1..6]
BitmapsV4(d) ==
    [x_bitmap |-> BitOr(BitOr(ShiftLeft(BitAnd(d[3], \H1f), 10),
                              ShiftLeft(BitAnd(d[4], \H60), 3)),
                        BitOr(ShiftLeft(BitAnd(d[1], \H3f), 2),
                              ShiftRight(BitAnd(d[2], \H60), 5))),
     y_bitmap |-> BitOr(BitOr(ShiftLeft(BitAnd(d[6], \H01), 10),
                              ShiftLeft(BitAnd(d[4], \H1f), 5)),
                        BitAnd(d[2], \H1f))]

\* Mutation: the complete bitmap is taken for two contacts.
AdvanceV4_TwoContacts(md) ==
    IF md.multi_packet + 1 > 2
    THEN [md EXCEPT !.multi_packet = 0, !.fingers = 2]
    ELSE [md EXCEPT !.multi_packet = @ + 1]

\* Mutation: the counter is not reset when the bitmap is complete.
AdvanceV4_NoReset(md) ==
    IF md.multi_packet + 1 > 2
    THEN [md EXCEPT !.multi_packet = @ + 1, !.fingers = 0]
    ELSE [md EXCEPT !.multi_packet = @ + 1]

\* if (++multi_packet > 2): the bitmap is complete, no finger count comes of it
AdvanceV4(md) ==
    IF md.multi_packet + 1 > 2
    THEN [md EXCEPT !.multi_packet = 0, !.fingers = 0]
    ELSE [md EXCEPT !.multi_packet = @ + 1]

decodeV4(p) ==
    [x |-> BitOr(BitOr(ShiftLeft(BitAnd(p[2], \H7f), 4),
                       ShiftRight(BitAnd(p[4], \H30), 2)),
                 ShiftRight(BitAnd(p[1], \H30), 4)),
     y |-> BitOr(ShiftLeft(BitAnd(p[3], \H7f), 4), BitAnd(p[4], \H0f)),
     z |-> BitAnd(p[6], \H7f),
     buttons |-> ButtonMask(BitAnd(p[5], 1), BitAnd(p[5], 2), 0)]

\* If there were no contacts in the bitmap, use ST points in MT reports.
FingersV4(md, z) == IF md.fingers < 2 THEN (IF z > 0 THEN 1 ELSE 0) ELSE md.fingers

touchpadDoneV4(md, t, d, fingers, offset, r) ==
    [md |-> [md EXCEPT !.lastz = r.lastz], t |-> r.t, ev |-> r.ev, frame |-> TRUE,
     offset |-> offset, assembled |-> offset = 4,
     bitmaps |-> IF offset = 4 THEN BitmapsV4(md.multi_data) ELSE <<>>,
     sample |-> [mode0 |-> t.touchmode, xraw |-> d.x, yraw |-> d.y, x |-> r.x,
                 y |-> r.y, z |-> d.z, fingers |-> fingers, buttons |-> d.buttons,
                 ignored |-> r.ignored, lift |-> r.lift, t0 |-> t, ev |-> r.ev]]

touchpadV4(md, t, now, d, offset) ==
    touchpadDoneV4(md, t, d, FingersV4(md, d.z), offset,
                   dispatchEventsWithInfo(t, md.lastz, now, d.x, d.y, d.z,
                                          FingersV4(md, d.z), d.buttons))

packetV4(md, t, now, p) ==
    IF md.multi_packet > 2
    THEN [md |-> md, t |-> t, ev |-> <<>>, frame |-> FALSE, offset |-> -1,
          assembled |-> FALSE, bitmaps |-> <<>>, sample |-> <<>>]
    ELSE touchpadV4(AdvanceV4(StoreFragmentV4(md, p)), t, now, decodeV4(p),
                    2 * md.multi_packet)

processPacketV4(md, t, now, p) == packetV4(SyncV4(md, p), t, now, p)

MaxPacketsV1V2 == 4

MaxPacketsV3 == 5

\* Nanoseconds of uptime between two packets: within and beyond the tap time.
Soon == 50 * 1000 * 1000

Late == 200 * 1000 * 1000

\* V2 packets <<bytes, time since the previous packet>>, by what they decode to.
PacketsV1V2 ==
    { <<<<\Hf8, \H74, \H18, \H30, \H10, \H32>>, Soon>>,   \* x 500 y 400 z 50
      <<<<\Hf8, \H08, \H20, \H30, \H2e, \H32>>, Soon>>,   \* x 520 y 430 z 50
      <<<<\Hf8, \H08, \H20, \H30, \H2e, \H32>>, Late>>,
      <<<<\Hf8, \H00, \H00, \H00, \H00, \H00>>, Soon>>,   \* x 0 y 0 z 0
      <<<<\Hf8, \H00, \H00, \H00, \H00, \H00>>, Late>>,
      <<<<\Hf8, \H68, \H38, \H30, \H10, \H32>>, Soon>>,   \* x 1000 y 400 z 50
      <<<<\Hf8, \H74, \H18, \H30, \H10, \H64>>, Soon>>,   \* x 500 y 400 z 100
      <<<<\Hf8, \H74, \H18, \H30, \H4c, \H64>>, Soon>>,   \* x 500 y 460 z 100
      <<<<\Hf8, \H74, \H18, \H40, \H08, \H64>>, Soon>>,   \* x 500 y 520 z 100
      <<<<\Hf8, \H3c, \H28, \H20, \H2c, \H7f>>, Soon>>,   \* x 700 y 300 z 127
      <<<<\Hf8, \H64, \H00, \H01, \H64, \H7f>>, Soon>>,   \* x 100 y 100 z 127, left
      <<<<\Hf8, \H74, \H19, \H30, \H10, \H00>>, Soon>>,   \* ges, x 500 y 400 z 0
      <<<<\Hf8, \H74, \H1b, \H30, \H10, \H32>>, Soon>> }  \* ges fin, x 500 y 400 z 50

\* V3 (Pinnacle) packets: position, first of a multi-packet, bitmap, trackstick.
PacketsV3 ==
    { <<<<\H8f, \H3e, \H2b, \H00, \H2c, \H32>>, Soon>>,   \* x 1000 y 700 z 50
      <<<<\H8f, \H19, \H12, \H00, \H4c, \H32>>, Soon>>,   \* first_mp, x 400 y 300 z 50
      <<<<\H8f, \H64, \H44, \H00, \H4c, \H32>>, Soon>>,   \* first_mp, x 1600 y 1100 z 50
      <<<<\H8f, \H00, \H00, \H00, \H00, \H00>>, Soon>>,   \* x 0 y 0 z 0
      <<<<\Haf, \H79, \H2b, \H00, \H3c, \H32>>, Soon>>,   \* x 1950 y 700 z 50
      <<<<\Hcf, \H02, \H02, \H10, \H04, \H01>>, Soon>>,   \* bitmap, 2 fingers, x_map 0x408 y_map 0x104
      <<<<\Hcf, \H18, \H18, \H00, \H00, \H00>>, Soon>>,   \* bitmap, 1 finger, x_map 0x60 y_map 0x30
      <<<<\Hcf, \H00, \H04, \H00, \H00, \H01>>, Soon>>,   \* bitmap, 2 fingers, x_map 0
      <<<<\Hdf, \H05, \H7d, \H00, \H00, \H3f>>, Soon>>,   \* trackstick, x 5 y -3
      <<<<\Hcf, \H00, \H00, \H00, \H00, \H3f>>, Soon>> }  \* trackstick, at rest

\* V3 (Pinnacle) packets of a trackstick in use next to the touchpad: the
\* trackstick in motion, at rest, a packet with bit 6 clear and the packet that
\* ends a stream; a finger on the touchpad, moved, and lifted.
TrackstickPacketsV3 ==
    { <<<<\Hdf, \H05, \H7d, \H00, \H00, \H3f>>, Soon>>,   \* trackstick, x 5 y -3
      <<<<\Hcf, \H00, \H00, \H00, \H00, \H3f>>, Soon>>,   \* trackstick, at rest
      <<<<\H9f, \H05, \H7d, \H00, \H00, \H3f>>, Soon>>,   \* trackstick, bit 6 clear
      <<<<\Hcf, \H7f, \H7f, \H7f, \H00, \H3f>>, Soon>>,   \* trackstick, end of stream
      <<<<\H8f, \H3e, \H2b, \H00, \H2c, \H32>>, Soon>>,   \* x 1000 y 700 z 50
      <<<<\Haf, \H79, \H2b, \H00, \H3c, \H32>>, Soon>>,   \* x 1950 y 700 z 50
      <<<<\H8f, \H00, \H00, \H00, \H00, \H00>>, Soon>> }  \* x 0 y 0 z 0

\* V4 packets: a position and the fragment of the bitmap in bytes 6 and 7.
PacketsV4 ==
    { <<<<\H8f, \H1f, \H19, \H10, \H00, \H32, \H41, \H21>>, Soon>>,   \* x 500 y 400 z 50, sync
      <<<<\H8f, \H1f, \H19, \H10, \H00, \H32, \H02, \H22>>, Soon>>,
      <<<<\H8f, \H1f, \H19, \H10, \H00, \H32, \H1f, \H7f>>, Soon>>,
      <<<<\H8f, \H20, \H1a, \H10, \H01, \H32, \H03, \H05>>, Soon>>,   \* x 516 y 416 z 50, left
      <<<<\H8f, \H00, \H00, \H00, \H00, \H00, \H2a, \H54>>, Soon>>,   \* x 0 y 0 z 0
      <<<<\H8f, \H00, \H00, \H00, \H00, \H00, \H40, \H00>>, Soon>> }  \* x 0 y 0 z 0, sync

\* What an uninitialised int of the stack frame may hold.
StackJunk == {0, 1365}

NoPacket == [op |-> "none"]

\* The finger count of the latest frame dispatched so far, -1 before the first.
FingersBefore ==
    IF lastPacket.op = "none" THEN -1
    ELSE IF lastPacket.frame THEN lastPacket.sample.fingers
    ELSE lastPacket.before

\* processPacketV1V2(packet) on a framed packet
ProcessPacketV1V2 ==
    /\ process_packet = "processPacketV1V2"
    /\ npackets < MaxPacketsV1V2
    /\ \E in \in PacketsV1V2 :
         \E r \in {processPacketV1V2(modelData, touch, uptime + in[2], in[1])} :
            /\ uptime' = uptime + in[2]
            /\ modelData' = r.md
            /\ touch' = r.t
            /\ events' = events \o r.ev
            /\ prevPacket' = lastPacket
            /\ lastPacket' = [op |-> "processPacketV1V2", packet |-> in[1],
                              at |-> uptime + in[2], md0 |-> modelData, t0 |-> touch,
                              trackstick |-> r.trackstick, frame |-> ~r.trackstick,
                              sample |-> r.sample, ev |-> r.ev,
                              before |-> FingersBefore]
            /\ npackets' = npackets + 1
    /\ UNCHANGED <<hw_init, process_packet, decode_fields, _bounds, lastIdent,
                   framerVars, bitmapVars, cmdVars>>

\* processPacketV3(packet) on a framed packet
PacketV3(in, junk) ==
    /\ process_packet = "processPacketV3"
    /\   \E r \in {processPacketV3(modelData, decode_fields, touch, uptime + in[2],
                                   in[1], junk)} :
            /\ uptime' = uptime + in[2]
            /\ modelData' = r.md
            /\ touch' = r.t
            /\ events' = events \o r.ev
            /\ prevPacket' = lastPacket
            /\ lastPacket' = [op |-> "processPacketV3", packet |-> in[1],
                              at |-> uptime + in[2], md0 |-> modelData, t0 |-> touch,
                              trackstick |-> in[1][6] = \H3f, frame |-> r.frame,
                              sample |-> r.sample, ev |-> r.ev,
                              before |-> FingersBefore]
            /\ npackets' = npackets + 1
    /\ UNCHANGED <<hw_init, process_packet, decode_fields, _bounds, lastIdent,
                   framerVars, bitmapVars, cmdVars>>

ProcessPacketV3 ==
    /\ npackets < MaxPacketsV3
    /\ \E in \in PacketsV3, junk \in StackJunk : PacketV3(in, junk)

\* V3 (Pinnacle) packets of multi-packet sequences: a position, the first of a
\* sequence, bitmaps of two fingers and of one, a lift, and a trackstick packet
\* in between.
SequencePacketsV3 ==
    { <<<<\H8f, \H3e, \H2b, \H00, \H2c, \H32>>, Soon>>,   \* x 1000 y 700 z 50
      <<<<\H8f, \H19, \H12, \H00, \H4c, \H32>>, Soon>>,   \* first_mp, x 400 y 300 z 50
      <<<<\H8f, \H00, \H00, \H00, \H00, \H00>>, Soon>>,   \* x 0 y 0 z 0
      <<<<\Hcf, \H02, \H02, \H10, \H04, \H01>>, Soon>>,   \* bitmap, 2 fingers
      <<<<\Hcf, \H18, \H18, \H00, \H00, \H00>>, Soon>>,   \* bitmap, 1 finger
      <<<<\Hcf, \H00, \H00, \H00, \H00, \H3f>>, Soon>> }  \* trackstick, at rest

MaxSequencePackets == 5

ProcessSequenceV3 ==
    /\ npackets < MaxSequencePackets
    /\ \E in \in SequencePacketsV3, junk \in StackJunk : PacketV3(in, junk)

MaxTrackstickPackets == 5

ProcessTrackstickV3 ==
    /\ npackets < MaxTrackstickPackets
    /\ \E in \in TrackstickPacketsV3, junk \in StackJunk : PacketV3(in, junk)

MaxPacketsV4 == 4

\* processPacketV4(packet) on a framed packet
ProcessPacketV4 ==
    /\ process_packet = "processPacketV4"
    /\ npackets < MaxPacketsV4
    /\ \E in \in PacketsV4 :
         \E r \in {processPacketV4(modelData, touch, uptime + in[2], in[1])} :
            /\ uptime' = uptime + in[2]
            /\ modelData' = r.md
            /\ touch' = r.t
            /\ events' = events \o r.ev
            /\ prevPacket' = lastPacket
            /\ lastPacket' = [op |-> "processPacketV4", packet |-> in[1],
                              at |-> uptime + in[2], md0 |-> modelData, t0 |-> touch,
                              trackstick |-> FALSE, frame |-> r.frame,
                              offset |-> r.offset, assembled |-> r.assembled,
                              bitmaps |-> r.bitmaps,
                              sample |-> r.sample, ev |-> r.ev,
                              before |-> FingersBefore]
            /\ npackets' = npackets + 1
    /\ UNCHANGED <<hw_init, process_packet, decode_fields, _bounds, lastIdent,
                   framerVars, bitmapVars, cmdVars>>

\* A sample as a packet processor hands it to dispatchEventsWithInfo, and the
\* time since the previous one.
Sample(x, y, z, fingers, buttons, dt) ==
    [x |-> x, y |-> y, z |-> z, fingers |-> fingers, buttons |-> buttons, dt |-> dt]

\* Beyond the tap time, for sessions of many samples.
Slow == 140 * 1000 * 1000

\* One finger away from the edges: a touch, small and large movements, a lift;
\* two fingers; one finger in the right edge, the bottom edge and their corner.
PointerSamples ==
    { Sample(1500, 1200, 50, 1, 0, Soon),
      Sample(1503, 1205, 50, 1, 0, Late),
      Sample(1500, 1300, 50, 1, 0, Soon),
      Sample(2100, 1200, 50, 1, 0, Late),
      Sample(0, 0, 0, 0, 0, Soon),
      Sample(1500, 1200, 50, 2, 0, Soon),
      Sample(1500, 1260, 50, 2, 0, Soon),
      Sample(5900, 1200, 50, 1, 0, Soon),
      Sample(1500, 4100, 50, 1, 0, Soon),
      Sample(5900, 4100, 60, 1, 0, Soon) }

\* Three and four fingers moving up, down and sideways by more than the swipe
\* distance, and a lift.
SwipeSamples ==
    { Sample(1500, 1000, 50, 3, 0, Soon),
      Sample(1500, 700, 50, 3, 0, Soon),
      Sample(1500, 400, 50, 3, 0, Soon),
      Sample(1800, 700, 50, 3, 0, Soon),
      Sample(1500, 1000, 50, 4, 0, Soon),
      Sample(1500, 700, 50, 4, 0, Soon),
      Sample(1500, 400, 50, 4, 0, Soon),
      Sample(1200, 700, 50, 4, 0, Soon),
      Sample(0, 0, 0, 0, 0, Soon) }

\* One finger tapping, touching, moving and lifting early or late; two fingers.
DragSamples ==
    { Sample(1500, 1200, 50, 1, 0, Soon),
      Sample(1521, 1231, 50, 1, 0, Slow),
      Sample(1500, 1200, 50, 2, 0, Soon),
      Sample(0, 0, 0, 0, 0, Soon),
      Sample(0, 0, 0, 0, 0, Slow) }

MaxPointerSamples == 4

MaxSwipeSamples == 4

MaxDragSamples == 7

\* The swipe messages a dispatch sent.
Messages(ev) == SelectSeq(ev, LAMBDA e : e.type = "KeyboardMessage")

\* The samples dispatched so far: finger count, lift, and messages sent.
ContactLog == IF lastPacket.op = "dispatchEventsWithInfo" THEN lastPacket.log ELSE <<>>

\* dispatchEventsWithInfo(xraw, yraw, z, fingers, buttonsraw) on a decoded sample
DispatchSample(in) ==
    /\ \E r \in {dispatchEventsWithInfo(touch, modelData.lastz, uptime + in.dt,
                                         in.x, in.y, in.z, in.fingers, in.buttons)} :
            /\ uptime' = uptime + in.dt
            /\ modelData' = [modelData EXCEPT !.lastz = r.lastz]
            /\ touch' = r.t
            /\ events' = events \o r.ev
            /\ prevPacket' = lastPacket
            /\ lastPacket' = [op |-> "dispatchEventsWithInfo", packet |-> in,
                              at |-> uptime + in.dt, md0 |-> modelData, t0 |-> touch,
                              trackstick |-> FALSE, frame |-> TRUE,
                              sample |-> [mode0 |-> touch.touchmode, xraw |-> in.x,
                                          yraw |-> in.y, x |-> r.x, y |-> r.y,
                                          z |-> in.z, fingers |-> in.fingers,
                                          buttons |-> in.buttons,
                                          ignored |-> r.ignored, lift |-> r.lift,
                                          t0 |-> touch, ev |-> r.ev,
                                          atMotion |-> r.atMotion, motion |-> r.motion],
                              ev |-> r.ev, before |-> FingersBefore,
                              log |-> Append(ContactLog,
                                             [fingers |-> in.fingers, lift |-> r.lift,
                                              msgs |-> Messages(r.ev)])]
            /\ npackets' = npackets + 1
    /\ UNCHANGED <<hw_init, process_packet, decode_fields, _bounds, lastIdent,
                   framerVars, bitmapVars, cmdVars>>

DispatchPointer == npackets < MaxPointerSamples /\ \E in \in PointerSamples : DispatchSample(in)

DispatchSwipe == npackets < MaxSwipeSamples /\ \E in \in SwipeSamples : DispatchSample(in)

DispatchDrag == npackets < MaxDragSamples /\ \E in \in DragSamples : DispatchSample(in)

\* The gesture machine of the other specifications: at rest and not consulted.
TouchIdle ==
    /\ touch = [touchmode |-> "MODE_NOTOUCH"]
    /\ events = <<>>
    /\ lastPacket = NoPacket
    /\ prevPacket = NoPacket
    /\ npackets = 0
    /\ uptime = 0

\* Uptime when the first packet of the session is about to arrive.
SessionStart == 1000 * 1000 * 1000

TouchStart(config) ==
    /\ touch = config
    /\ events = <<>>
    /\ lastPacket = NoPacket
    /\ prevPacket = NoPacket
    /\ npackets = 0
    /\ uptime = SessionStart

(***************************************************************************)
(* Command mode register protocol.                                         *)
(***************************************************************************)
\* An entry of a nibble table: the command byte, the send/receive counts the
\* entry carries in bits 8..15, and the data byte.
NibbleCommand(command, counts, data) ==
    [command |-> command, counts |-> counts, data |-> data]

alps_v3_nibble_commands ==
    << NibbleCommand("kDP_MouseSetPoll", 0, \H00),
       NibbleCommand("kDP_SetDefaults", 0, \H00),
       NibbleCommand("kDP_SetMouseScaling2To1", 0, \H00),
       NibbleCommand("kDP_SetMouseSampleRate", \H1000, \H0a),
       NibbleCommand("kDP_SetMouseSampleRate", \H1000, \H14),
       NibbleCommand("kDP_SetMouseSampleRate", \H1000, \H28),
       NibbleCommand("kDP_SetMouseSampleRate", \H1000, \H3c),
       NibbleCommand("kDP_SetMouseSampleRate", \H1000, \H50),
       NibbleCommand("kDP_SetMouseSampleRate", \H1000, \H64),
       NibbleCommand("kDP_SetMouseSampleRate", \H1000, \Hc8),
       NibbleCommand("kDP_CommandNibble10", \H0100, \H00),
       NibbleCommand("kDP_SetMouseResolution", \H1000, \H00),
       NibbleCommand("kDP_SetMouseResolution", \H1000, \H01),
       NibbleCommand("kDP_SetMouseResolution", \H1000, \H02),
       NibbleCommand("kDP_SetMouseResolution", \H1000, \H03),
       NibbleCommand("kDP_SetMouseScaling1To1", 0, \H00) >>

alps_v4_nibble_commands ==
    << NibbleCommand("kDP_Enable", 0, \H00),
       NibbleCommand("kDP_SetDefaults", 0, \H00),
       NibbleCommand("kDP_SetMouseScaling2To1", 0, \H00),
       NibbleCommand("kDP_SetMouseSampleRate", \H1000, \H0a),
       NibbleCommand("kDP_SetMouseSampleRate", \H1000, \H14),
       NibbleCommand("kDP_SetMouseSampleRate", \H1000, \H28),
       NibbleCommand("kDP_SetMouseSampleRate", \H1000, \H3c),
       NibbleCommand("kDP_SetMouseSampleRate", \H1000, \H50),
       NibbleCommand("kDP_SetMouseSampleRate", \H1000, \H64),
       NibbleCommand("kDP_SetMouseSampleRate", \H1000, \Hc8),
       NibbleCommand("kDP_CommandNibble10", \H0100, \H00),
       NibbleCommand("kDP_SetMouseResolution", \H1000, \H00),
       NibbleCommand("kDP_SetMouseResolution", \H1000, \H01),
       NibbleCommand("kDP_SetMouseResolution", \H1000, \H02),
       NibbleCommand("kDP_SetMouseResolution", \H1000, \H03),
       NibbleCommand("kDP_SetMouseScaling1To1", 0, \H00) >>

\* modelData.nibble_commands[nibble]
NibbleEntry(md, nibble) ==
    IF md.nibble_commands = "alps_v4_nibble_commands"
    THEN alps_v4_nibble_commands[nibble + 1]
    ELSE alps_v3_nibble_commands[nibble + 1]

SendCmd(byte) == [command |-> "kPS2C_SendMouseCommandAndCompareAck", inOrOut |-> byte]

ReadCmd == [command |-> "kPS2C_ReadDataPort", inOrOut |-> 0]

(* The device end of the exchange.  nibs holds the nibbles received since  *)
(* the last address command: four of address, then two of value; await is  *)
(* a command byte whose data byte is still to come; out is the bytes the   *)
(* device has queued for the host.                                         *)
NoRegs == [a \in {} |-> 0]

DevIdle == [nibs |-> <<>>, await |-> "none", out |-> <<>>, regs |-> NoRegs]

DevAddr(dev) == dev.nibs[1] * 4096 + dev.nibs[2] * 256 + dev.nibs[3] * 16 + dev.nibs[4]

DevReg(dev, a) == IF a \in DOMAIN dev.regs THEN dev.regs[a] ELSE 0

\* The sixth nibble completes a register write.
DevNibbleStored(dev, d1) ==
    IF Len(d1.nibs) = 6 /\ Len(dev.nibs) = 5
    THEN [d1 EXCEPT !.regs = [a \in DOMAIN dev.regs \cup {DevAddr(d1)} |->
                                 IF a = DevAddr(d1) THEN d1.nibs[5] * 16 + d1.nibs[6]
                                 ELSE dev.regs[a]]]
    ELSE d1

DevNibble(dev, md, n) ==
    DevNibbleStored(dev,
        [dev EXCEPT !.nibs = IF Len(dev.nibs) < 6 THEN Append(dev.nibs, n) ELSE @,
                    !.await = "none",
                    !.out = IF (NibbleEntry(md, n).counts \div 256) % 16 > 0
                            THEN <<0>> ELSE <<>>])

\* The nibbles a command byte (with its data byte, if it takes one) stands for.
NibblesOf(md, command, data) ==
    {n \in 0..15 : /\ NibbleEntry(md, n).command = command
                   /\ (NibbleEntry(md, n).counts \div 4096) % 16 > 0
                        => NibbleEntry(md, n).data = data}

TakesData(md, command) ==
    \E n \in 0..15 : /\ NibbleEntry(md, n).command = command
                     /\ (NibbleEntry(md, n).counts \div 4096) % 16 > 0

DevCommand(dev, md, byte) ==
    IF byte = md.addr_command
    THEN [dev EXCEPT !.nibs = <<>>, !.await = "none", !.out = <<>>]
    ELSE IF byte = "kDP_GetMouseInformation"
    THEN [dev EXCEPT !.await = "none",
                     !.out = IF Len(dev.nibs) >= 4
                             THEN <<DevAddr(dev) \div 256, DevAddr(dev) % 256,
                                    DevReg(dev, DevAddr(dev))>>
                             ELSE <<0, 0, 0>>]
    ELSE IF TakesData(md, byte)
    THEN [dev EXCEPT !.await = byte, !.out = <<>>]
    ELSE IF NibblesOf(md, byte, 0) # {}
    THEN DevNibble(dev, md, CHOOSE n \in NibblesOf(md, byte, 0) : TRUE)
    ELSE [dev EXCEPT !.await = "none", !.out = <<>>]

DevByte(dev, md, byte) ==
    IF dev.await # "none" /\ NibblesOf(md, dev.await, byte) # {}
    THEN DevNibble(dev, md, CHOOSE n \in NibblesOf(md, dev.await, byte) : TRUE)
    ELSE IF dev.await # "none"
    THEN [dev EXCEPT !.await = "none", !.out = <<>>]
    ELSE DevCommand(dev, md, byte)

(* The transport.  A call is given a plan: which of its exchanges, if any, *)
(* completes fewer steps than requested and how many, and whether the      *)
(* device's report is handed over as sent.  A session threads the device,  *)
(* the log of the exchanges submitted and the plan through one call.       *)
NoFault == [at |-> 0, done |-> 0, report |-> <<>>]

Session(dev, plan) == [dev |-> dev, log |-> <<>>, plan |-> plan]

\* The device takes the first done commands of the request; the bytes the
\* host reads come from the device's queue.
RECURSIVE deliver(_, _, _, _, _)
deliver(dev, md, request, done, i) ==
    IF i > done THEN [dev |-> dev, request |-> request]
    ELSE IF request[i].command = "kPS2C_ReadDataPort"
    THEN LET b == IF dev.out = <<>> THEN 0 ELSE Head(dev.out)
             d1 == [dev EXCEPT !.out = IF dev.out = <<>> THEN <<>> ELSE Tail(dev.out)]
         IN deliver(d1, md, [request EXCEPT ![i].inOrOut = b], done, i + 1)
    ELSE deliver(DevByte(dev, md, request[i].inOrOut), md, request, done, i + 1)

\* The number of commands of the next exchange that complete.
PlannedDone(s, request) ==
    IF s.plan.at = Len(s.log) + 1 /\ s.plan.done < Len(request)
    THEN s.plan.done ELSE Len(request)

\* The request as the host sees it after the exchange.
Reported(plan, done, request) ==
    IF plan.report = <<>> \/ Len(request) # 4 \/ done < 4
    THEN request
    ELSE [request EXCEPT ![2].inOrOut = plan.report[1],
                         ![3].inOrOut = plan.report[2],
                         ![4].inOrOut = plan.report[3]]

submitDelivered(s, request, done, r) ==
    [s |-> [s EXCEPT !.dev = r.dev,
                     !.log = Append(s.log, [request |-> request, done |-> done])],
     commandsCount |-> done,
     commands |-> Reported(s.plan, done, r.request)]

submitDone(s, md, request, done) ==
    submitDelivered(s, request, done, deliver(s.dev, md, request, done, 1))

\* _device->submitRequestAndBlock(&request): commandsCount comes back as the
\* number of commands that completed.
submitRequestAndBlock(s, md, request) ==
    submitDone(s, md, request, PlannedDone(s, request))

NibbleSend(command) == (command.counts \div 4096) % 16

NibbleReceive(command) == (command.counts \div 256) % 16

NibbleRequest(command) ==
    <<SendCmd(command.command)>>
        \o (IF NibbleSend(command) > 0 THEN <<SendCmd(command.data)>> ELSE <<>>)
        \o [i \in 1..NibbleReceive(command) |-> ReadCmd]

sendNibbleDone(r, request) == [s |-> r.s, ok |-> r.commandsCount = Len(request)]

sendNibbleRequest(s, md, send, receive, request) ==
    IF send > 1 \/ send + receive + 1 > 2
    THEN [s |-> s, ok |-> FALSE]
    ELSE sendNibbleDone(submitRequestAndBlock(s, md, request), request)

sendNibbleCommand(s, md, command) ==
    sendNibbleRequest(s, md, NibbleSend(command), NibbleReceive(command),
                      NibbleRequest(command))

commandModeSendNibble(s, md, nibble) == sendNibbleCommand(s, md, NibbleEntry(md, nibble))

\* Mutation: the address nibbles are taken least-significant first.
AddrNibble_LowFirst(addr, i) == (addr \div Pow2(12 - i)) % 16

\* nibble = (addr >> i) & 0xf
AddrNibble(addr, i) == (addr \div Pow2(i)) % 16

RECURSIVE sendAddrNibbles(_, _, _, _)
sendNextAddrNibble(r, md, addr, i) ==
    IF ~r.ok THEN [s |-> r.s, ok |-> FALSE]
    ELSE sendAddrNibbles(r.s, md, addr, i - 4)

\* for (i = 12; i >= 0; i -= 4)
sendAddrNibbles(s, md, addr, i) ==
    IF i < 0 THEN [s |-> s, ok |-> TRUE]
    ELSE sendNextAddrNibble(commandModeSendNibble(s, md, AddrNibble(addr, i)),
                            md, addr, i)

setAddrNibbles(r, md, addr) ==
    IF r.commandsCount # 1 THEN [s |-> r.s, ok |-> FALSE]
    ELSE sendAddrNibbles(r.s, md, addr, 12)

commandModeSetAddr(s, md, addr) ==
    setAddrNibbles(submitRequestAndBlock(s, md, <<SendCmd(md.addr_command)>>), md, addr)

\* Mutation: the low nibble is sent in place of the high one.
ValueHigh_Low(value) == value % 16

\* (value >> 4) & 0xf
ValueHigh(value) == (value \div 16) % 16

writeLowNibble(r, md, value) ==
    IF ~r.ok THEN [s |-> r.s, ok |-> FALSE]
    ELSE commandModeSendNibble(r.s, md, value % 16)

\* commandModeWriteReg(UInt8 value)
commandModeWriteRegValue(s, md, value) ==
    writeLowNibble(commandModeSendNibble(s, md, ValueHigh(value)), md, value)

writeRegAt(r, md, value) ==
    IF ~r.ok THEN [s |-> r.s, ok |-> FALSE]
    ELSE commandModeWriteRegValue(r.s, md, value)

\* commandModeWriteReg(int addr, UInt8 value)
commandModeWriteReg(s, md, addr, value) ==
    writeRegAt(commandModeSetAddr(s, md, addr), md, value)

\* Mutation: only the low byte of the echoed address is compared.
EchoMatches_LowByte(addr, status) == addr % 256 = status[2]

\* addr == ((status.bytes[0] << 8) | status.bytes[1])
EchoMatches(addr, status) == addr = status[1] * 256 + status[2]

readRegChecked(s, addr, status) ==
    IF ~EchoMatches(addr, status)
    THEN [s |-> s, ret |-> -1, status |-> status]
    ELSE [s |-> s, ret |-> status[3], status |-> status]

readRegStatus(q, addr) ==
    IF q.commandsCount # 4 THEN [s |-> q.s, ret |-> -1, status |-> <<>>]
    ELSE readRegChecked(q.s, addr, <<q.commands[2].inOrOut, q.commands[3].inOrOut,
                                     q.commands[4].inOrOut>>)

readRegAt(r, md, addr) ==
    IF ~r.ok THEN [s |-> r.s, ret |-> -1, status |-> <<>>]
    ELSE readRegStatus(submitRequestAndBlock(r.s, md,
                           <<SendCmd("kDP_GetMouseInformation"), ReadCmd, ReadCmd,
                             ReadCmd>>),
                       addr)

commandModeReadReg(s, md, addr) == readRegAt(commandModeSetAddr(s, md, addr), md, addr)

MaxCmds == 2

Addrs == {\Hc2c4, \H1a3f}

Values == {\H5a, \Ha7}

\* A plan for a call of at most n exchanges.
Plans(n) ==
    {NoFault} \cup {[at |-> k, done |-> 0, report |-> <<>>] : k \in 1..n}

ReadPlans ==
    Plans(6) \cup {[at |-> 6, done |-> 2, report |-> <<>>],
                   [at |-> 0, done |-> 0, report |-> <<\H1a, \H3e, \H77>>],
                   [at |-> 0, done |-> 0, report |-> <<\H00, \H3f, \H77>>]}

NoCmd == [op |-> "none"]

CommandModeWriteReg ==
    /\ ncmds < MaxCmds
    /\ \E addr \in Addrs, value \in Values, plan \in Plans(7) :
         \E r \in {commandModeWriteReg(Session(ps2dev, plan), modelData, addr, value)} :
            /\ ps2dev' = r.s.dev
            /\ lastCmd' = [op |-> "commandModeWriteReg", addr |-> addr, value |-> value,
                           plan |-> plan, log |-> r.s.log, ok |-> r.ok]
    /\ prevCmd' = lastCmd
    /\ ncmds' = ncmds + 1
    /\ UNCHANGED <<profileVars, lastIdent, framerVars, bitmapVars, touchVars>>

CommandModeReadReg ==
    /\ ncmds < MaxCmds
    /\ \E addr \in Addrs, plan \in ReadPlans :
         \E r \in {commandModeReadReg(Session(ps2dev, plan), modelData, addr)} :
            /\ ps2dev' = r.s.dev
            /\ lastCmd' = [op |-> "commandModeReadReg", addr |-> addr,
                           plan |-> plan, log |-> r.s.log, ret |-> r.ret,
                           status |-> r.status]
    /\ prevCmd' = lastCmd
    /\ ncmds' = ncmds + 1
    /\ UNCHANGED <<profileVars, lastIdent, framerVars, bitmapVars, touchVars>>

CmdIdle ==
    /\ ps2dev = DevIdle
    /\ lastCmd = NoCmd
    /\ prevCmd = NoCmd
    /\ ncmds = 0

(***************************************************************************)
(* Hardware initialisation.  The functions below are followed call by     *)
(* call; a register call, a command-mode switch or a request is one step   *)
(* of the run, taken here by its outcome.  A run carries the log of its    *)
(* steps, the ordinals of the steps that fail, and the value every         *)
(* register reads as.                                                      *)
(***************************************************************************)
kIOReturnNoDevice == "kIOReturnNoDevice"

ALPS_REG_BASE_RUSHMORE == \Hc2c0

ALPS_REG_BASE_PINNACLE == \H0000

Run(faults, val) == [log |-> <<>>, faults |-> faults, val |-> val]

StepOk(h) == (Len(h.log) + 1) \notin h.faults

\* One call: its result is ok; a register read returns ret, -1 on failure.
Step(h, op, addr, value) ==
    [h |-> [h EXCEPT !.log = Append(@, [op |-> op, addr |-> addr, value |-> value,
                                        ok |-> StepOk(h)])],
     ok |-> StepOk(h),
     ret |-> IF StepOk(h) THEN h.val ELSE -1]

\* repeatCmd(NULL, NULL, kDP_MouseResetWrap, &status) and the test of status
enterCommandMode(h) == Step(h, "enterCommandMode", 0, 0)

\* Mutation: leaving command mode sends nothing.
exitCommandMode_Silent(h) == [h |-> h, ok |-> TRUE, ret |-> 0]

\* the request is submitted and true is returned whatever comes of it
exitCommandMode(h) == [Step(h, "exitCommandMode", 0, 0) EXCEPT !.ok = TRUE]

readReg(h, addr) == Step(h, "commandModeReadReg", addr, 0)

\* commandModeWriteReg(int addr, UInt8 value)
writeReg(h, addr, value) == Step(h, "commandModeWriteReg", addr, value)

\* commandModeWriteReg(UInt8 value): the register addressed by the last read
writeValue(h, value) == Step(h, "commandModeWriteReg", -1, value)

\* The UInt8 a register call is given for regVal | mask and regVal & mask,
\* regVal being a register value or the -1 of a failed read.
OrByte(regVal, mask) == IF regVal = -1 THEN 255 ELSE BitOr(regVal, mask)

AndByte(regVal, mask) == IF regVal = -1 THEN mask ELSE BitAnd(regVal, mask)

\* A run of register calls: read addr (the value becomes regVal), write addr
\* value, write regVal | mask, write regVal & mask, write value.  A failed call
\* ends the run unless its line goes on (a read whose failure is only logged).
ReadStep(addr) == [op |-> "read", addr |-> addr, arg |-> 0, abort |-> TRUE]

ReadLogged(addr) == [op |-> "read", addr |-> addr, arg |-> 0, abort |-> FALSE]

WriteStep(addr, value) == [op |-> "write", addr |-> addr, arg |-> value, abort |-> TRUE]

WriteOr(mask) == [op |-> "or", addr |-> -1, arg |-> mask, abort |-> TRUE]

WriteAnd(mask) == [op |-> "and", addr |-> -1, arg |-> mask, abort |-> TRUE]

WriteValue(value) == [op |-> "value", addr |-> -1, arg |-> value, abort |-> TRUE]

registerCall(h, regVal, c) ==
    IF c.op = "read" THEN readReg(h, c.addr)
    ELSE IF c.op = "write" THEN writeReg(h, c.addr, c.arg)
    ELSE IF c.op = "or" THEN writeValue(h, OrByte(regVal, c.arg))
    ELSE IF c.op = "and" THEN writeValue(h, AndByte(regVal, c.arg))
    ELSE writeValue(h, c.arg)

RECURSIVE registerCalls(_, _, _, _)
registerNext(r, regVal, calls, i) ==
    IF ~r.ok /\ calls[i].abort THEN [h |-> r.h, ok |-> FALSE]
    ELSE registerCalls(r.h, IF calls[i].op = "read" THEN r.ret ELSE regVal, calls, i + 1)

registerCalls(h, regVal, calls, i) ==
    IF i > Len(calls) THEN [h |-> h, ok |-> TRUE]
    ELSE registerNext(registerCall(h, regVal, calls[i]), regVal, calls, i)

absoluteModeV3(h) == registerCalls(h, 0, <<ReadStep(\H0004), WriteOr(\H06)>>, 1)

absoluteModeV4(h) == registerCalls(h, 0, <<ReadStep(\H0004), WriteOr(\H02)>>, 1)

\* error: exitCommandMode(); return ret;
passthroughExit(r) ==
    [h |-> exitCommandMode(r.h).h, ok |-> r.ok]

passthroughEntered(e, regBase, enable) ==
    IF ~e.ok THEN [h |-> e.h, ok |-> FALSE]
    ELSE passthroughExit(
             registerCalls(e.h, 0,
                           <<ReadStep(regBase + \H0008),
                             IF enable THEN WriteOr(\H01) ELSE WriteAnd(\Hfe)>>, 1))

passthroughModeV3(h, regBase, enable) ==
    passthroughEntered(enterCommandMode(h), regBase, enable)

\* bit 7: trackstick is present
probeRead(r) ==
    [h |-> exitCommandMode(r.h).h,
     ret |-> IF r.ret = -1 THEN kIOReturnNoDevice
             ELSE IF BitAnd(r.ret, \H80) # 0 THEN kIOReturnSuccess
             ELSE kIOReturnNoDevice]

probeEntered(e, regBase) ==
    IF ~e.ok THEN [h |-> exitCommandMode(e.h).h, ret |-> kIOReturnIOError]
    ELSE probeRead(readReg(e.h, regBase + \H08))

probeTrackstickV3(h, regBase) == probeEntered(enterCommandMode(h), regBase)

\* error: if (!passthroughModeV3(regBase, false)) ret = kIOReturnIOError;
setupLeft(p, ret) ==
    [h |-> p.h, ret |-> IF ~p.ok THEN kIOReturnIOError ELSE ret]

setupError(h, ret, regBase) == setupLeft(passthroughModeV3(h, regBase, FALSE), ret)

\* enterCommandMode() && commandModeWriteReg(regBase + 0x0008, 0x82) &&
\* exitCommandMode()
setupWritten(w, regBase) ==
    IF ~w.ok THEN setupError(w.h, kIOReturnIOError, regBase)
    ELSE setupError(exitCommandMode(w.h).h, kIOReturnSuccess, regBase)

setupEntered(e, regBase) ==
    IF ~e.ok THEN setupError(e.h, kIOReturnIOError, regBase)
    ELSE setupWritten(writeReg(e.h, regBase + \H0008, \H82), regBase)

setupNibble4(r, regBase) ==
    IF ~r.ok THEN setupError(r.h, kIOReturnIOError, regBase)
    ELSE setupEntered(enterCommandMode(r.h), regBase)

setupNibble9(r, regBase) ==
    IF ~r.ok THEN setupError(r.h, kIOReturnIOError, regBase)
    ELSE setupNibble4(Step(r.h, "commandModeSendNibble", 0, \H4), regBase)

setupScaled(r, regBase) ==
    IF ~r.ok THEN setupError(r.h, kIOReturnIOError, regBase)
    ELSE setupNibble9(Step(r.h, "commandModeSendNibble", 0, \H9), regBase)

setupReported(r, regBase) ==
    IF ~r.ok THEN setupError(r.h, kIOReturnNoDevice, regBase)
    ELSE setupScaled(Step(r.h, "submitRequestAndBlock", 0, 3), regBase)

setupPassed(p, regBase) ==
    IF ~p.ok THEN [h |-> p.h, ret |-> kIOReturnIOError]
    ELSE setupReported(Step(p.h, "repeatCmd", 0, 0), regBase)

setupTrackstickV3(h, regBase) == setupPassed(passthroughModeV3(h, regBase, TRUE), regBase)

\* error: exitCommandMode(); return false;
initError(h) == [h |-> exitCommandMode(h).h, ok |-> FALSE]

\* The register calls of hwInitV3 after absolute mode is entered.
RegistersV3 ==
    << ReadStep(\H0006), WriteOr(\H01),
       ReadLogged(\H0007), WriteOr(\H01),
       ReadStep(\H0144), WriteValue(\H04),
       ReadStep(\H0159), WriteValue(\H03),
       ReadStep(\H0163), WriteStep(\H0163, \H03),
       ReadStep(\H0162), WriteStep(\H0162, \H04) >>

\* exitCommandMode(); setSampleRateAndResolution(0x28, 0x02) sends nothing
initRegistersV3(r) ==
    IF ~r.ok THEN initError(r.h)
    ELSE [h |-> exitCommandMode(r.h).h, ok |-> TRUE]

initAbsoluteV3(a) ==
    IF ~a.ok THEN initError(a.h)
    ELSE initRegistersV3(registerCalls(a.h, 0, RegistersV3, 1))

initEnteredV3(e) ==
    IF ~e.ok THEN initError(e.h)
    ELSE initAbsoluteV3(absoluteModeV3(e.h))

initSetupV3(s) ==
    IF s.ret = kIOReturnIOError THEN initError(s.h)
    ELSE initEnteredV3(enterCommandMode(s.h))

initProbedV3(p) ==
    IF p.ret = kIOReturnIOError THEN initError(p.h)
    ELSE IF p.ret = kIOReturnSuccess
    THEN initSetupV3(setupTrackstickV3(p.h, ALPS_REG_BASE_PINNACLE))
    ELSE initEnteredV3(enterCommandMode(p.h))

hwInitV3(h) == initProbedV3(probeTrackstickV3(h, ALPS_REG_BASE_PINNACLE))

\* The register calls of hwInitRushmoreV3 once command mode is entered.
RegistersRushmoreV3 ==
    << ReadStep(\Hc2d9), WriteStep(\Hc2cb, \H00),
       ReadStep(\Hc2c6), WriteAnd(\Hfd),
       WriteStep(\Hc2c9, \H64),
       ReadStep(\Hc2c4), WriteOr(\H02) >>

\* exitCommandMode(); kDP_Enable; return request.commandsCount == 1;
initEnabled(r) ==
    [h |-> r.h, ok |-> r.ok]

initRegistersRushmoreV3(r) ==
    IF ~r.ok THEN initError(r.h)
    ELSE initEnabled(Step(exitCommandMode(r.h).h, "submitRequestAndBlock", 0, 1))

initEnteredRushmoreV3(e) ==
    IF ~e.ok THEN initError(e.h)
    ELSE initRegistersRushmoreV3(registerCalls(e.h, 0, RegistersRushmoreV3, 1))

withFlags(r, flags) ==
    [h |-> r.h, ok |-> r.ok, flags |-> flags]

\* if (regVal == kIOReturnNoDevice) modelData.flags &= ~ALPS_DUALPOINT;
initSetupRushmoreV3(s, flags) ==
    IF s.ret = kIOReturnIOError THEN withFlags(initError(s.h), flags)
    ELSE withFlags(initEnteredRushmoreV3(enterCommandMode(s.h)),
                   IF s.ret = kIOReturnNoDevice
                   THEN BitAnd(flags, 255 - ALPS_DUALPOINT) ELSE flags)

hwInitRushmoreV3(h, flags) ==
    IF BitAnd(flags, ALPS_DUALPOINT) # 0
    THEN initSetupRushmoreV3(setupTrackstickV3(h, ALPS_REG_BASE_RUSHMORE), flags)
    ELSE withFlags(initEnteredRushmoreV3(enterCommandMode(h)), flags)

\* The register calls of hwInitV4 after absolute mode is entered.
RegistersV4 ==
    << WriteStep(\H0007, \H8c), WriteStep(\H0149, \H03), WriteStep(\H0160, \H03),
       WriteStep(\H017f, \H15), WriteStep(\H0151, \H01), WriteStep(\H0168, \H03),
       WriteStep(\H014a, \H03), WriteStep(\H0161, \H03) >>

\* exitCommandMode(); the request of seven commands; the sample rate
initRegistersV4(r) ==
    IF ~r.ok THEN initError(r.h)
    ELSE initEnabled(Step(exitCommandMode(r.h).h, "submitRequestAndBlock", 0, 7))

initAbsoluteV4(a) ==
    IF ~a.ok THEN initError(a.h)
    ELSE initRegistersV4(registerCalls(a.h, 0, RegistersV4, 1))

initEnteredV4(e) ==
    IF ~e.ok THEN initError(e.h)
    ELSE initAbsoluteV4(absoluteModeV4(e.h))

hwInitV4(h) == initEnteredV4(enterCommandMode(h))

\* (this->*hw_init)() of a started device
hwInit(h, init, flags) ==
    IF init = "hwInitV3" THEN withFlags(hwInitV3(h), flags)
    ELSE IF init = "hwInitRushmoreV3" THEN hwInitRushmoreV3(h, flags)
    ELSE withFlags(hwInitV4(h), flags)

\* The steps of the longest run, and the sets of steps that fail in a run.
LongestRun == Len(hwInitV3(Run({}, \H80)).h.log)

MaxFaults == 2

RECURSIVE FaultSetsOf(_)
FaultSetsOf(k) ==
    IF k = 0 THEN {{}}
    ELSE FaultSetsOf(k - 1)
             \cup {s \cup {x} : s \in FaultSetsOf(k - 1), x \in 1..LongestRun}

FaultSets == FaultSetsOf(MaxFaults)

\* A register reads as 0 or with bit 7, the trackstick bit of the probe, set.
RegisterValues == {\H00, \H80}

HwInit ==
    /\ lastCmd = NoCmd
    /\ \E faults \in FaultSets, val \in RegisterValues :
         \E r \in {hwInit(Run(faults, val), hw_init, modelData.flags)} :
            /\ lastCmd' = [op |-> hw_init, faults |-> faults, val |-> val,
                           log |-> r.h.log, ok |-> r.ok]
            /\ modelData' = [modelData EXCEPT !.flags = r.flags]
    /\ UNCHANGED <<ps2dev, prevCmd, ncmds>>
    /\ UNCHANGED <<hw_init, process_packet, decode_fields, _bounds>>
    /\ UNCHANGED <<lastIdent, framerVars, bitmapVars, touchVars>>

SetupTrackstickV3 ==
    /\ lastCmd = NoCmd
    /\ hw_init \in {"hwInitV3", "hwInitRushmoreV3"}
    /\ \E faults \in FaultSets, val \in RegisterValues :
         \E r \in {setupTrackstickV3(Run(faults, val),
                                     IF hw_init = "hwInitV3" THEN ALPS_REG_BASE_PINNACLE
                                     ELSE ALPS_REG_BASE_RUSHMORE)} :
            lastCmd' = [op |-> "setupTrackstickV3", faults |-> faults, val |-> val,
                        log |-> r.h.log, ok |-> r.ret # kIOReturnIOError,
                        ret |-> r.ret]
    /\ UNCHANGED <<ps2dev, prevCmd, ncmds>>
    /\ UNCHANGED <<profileVars, lastIdent, framerVars, bitmapVars, touchVars>>

(***************************************************************************)
(* Specifications.                                                         *)
(***************************************************************************)
FramerIdle ==
    /\ _packetByteCount = 0
    /\ _ringBuffer = EmptyRing
    /\ pending = FALSE
    /\ nfed = 0
    /\ lastCall = [result |-> "none"]
    /\ signalled = <<>>
    /\ consumed = <<>>
    /\ aborted = {}

BitmapIdle ==
    /\ f = [x |-> 0, y |-> 0, x_map |-> 0, y_map |-> 0,
            x1 |-> 0, y1 |-> 0, x2 |-> 0, y2 |-> 0]
    /\ lastBitmap = NoBitmap

\* Identification: the freshly allocated driver object.
InitIdent ==
    /\ modelData = ZeroModelData
    /\ hw_init = "NULL"
    /\ process_packet = "NULL"
    /\ decode_fields = "NULL"
    /\ _bounds = [maxx |-> 0, maxy |-> 0]
    /\ lastIdent = NoIdent
    /\ FramerIdle
    /\ BitmapIdle
    /\ CmdIdle
    /\ TouchIdle

NextIdent == Probe \/ DeviceSpecificInit

SpecIdent == InitIdent /\ [][NextIdent]_vars

\* A device that probe and deviceSpecificInit brought up with these reports.
Started(e7, ec) ==
    LET in == [e6 |-> <<0, 0, 10>>, e7 |-> e7, ec |-> ec, failAt |-> 0, tsProbe |-> 0]
        p == identify(ZeroDevice, in)
        r == deviceSpecificInit(p.dev, in, [ts |-> "ok", rest |-> TRUE])
    IN /\ r.ok
       /\ modelData = r.dev.modelData
       /\ hw_init = r.dev.hw_init
       /\ process_packet = r.dev.process_packet
       /\ decode_fields = r.dev.decode_fields
       /\ _bounds = [maxx |-> p.dev.modelData.x_max, maxy |-> p.dev.modelData.y_max]
       /\ lastIdent = NoIdent

\* Byte stream: a started V4 device (8-byte packets) or V2 device (6-byte).
Init ==
    /\ \/ Started(<<\H73, \H02, \H64>>, <<\H73, \H02, \H8a>>)
       \/ Started(<<\H73, \H02, \H0a>>, <<\H73, \H02, \H8a>>)
    /\ FramerIdle
    /\ BitmapIdle
    /\ CmdIdle
    /\ TouchIdle

Next == InterruptOccurred \/ PacketReady

Spec == Init /\ [][Next]_vars

\* Bitmap frames on a started V3 (Pinnacle, Rushmore) or V5 device.  The
\* second-touch corner is 0 in a fresh session, -1 after a single touch and
\* 0..3 after a selection.  The caller's struct alps_fields is a fresh local:
\* decode_fields sets x, y and the bitmaps, the contact coordinates hold
\* whatever the stack held.
InitBitmap ==
    /\ \E st \in -1..3 :
         \E e7 \in {<<\H10, \H00, \H00>>, <<\H73, \H03, \H50>>},
            ec \in {<<\H88, \H07, \H9d>>, <<\H88, \H08, \H8a>>, <<\H73, \H01, \H00>>} :
            LET in == [e6 |-> <<0, 0, 10>>, e7 |-> e7, ec |-> ec, failAt |-> 0,
                       tsProbe |-> 0]
                p == identify(ZeroDevice, in)
                r == deviceSpecificInit(p.dev, in, [ts |-> "ok", rest |-> TRUE])
            IN /\ r.ok
               /\ modelData = [r.dev.modelData EXCEPT !.second_touch = st]
               /\ hw_init = r.dev.hw_init
               /\ process_packet = r.dev.process_packet
               /\ decode_fields = r.dev.decode_fields
               /\ _bounds = [maxx |-> p.dev.modelData.x_max,
                             maxy |-> p.dev.modelData.y_max]
    /\ \E x_map \in XMaps, y_map \in YMaps, pos \in Positions, junk \in {0, 77} :
         f = [x |-> pos[1], y |-> pos[2], x_map |-> x_map, y_map |-> y_map,
              x1 |-> junk, y1 |-> junk, x2 |-> junk, y2 |-> junk]
    /\ lastIdent = NoIdent
    /\ lastBitmap = NoBitmap
    /\ FramerIdle
    /\ CmdIdle
    /\ TouchIdle

NextBitmap == ProcessBitmap

SpecBitmap == InitBitmap /\ [][NextBitmap]_vars

\* Register access in command mode on a started V3 (Pinnacle) or V4 device.
InitCmd ==
    /\ \/ Started(<<\H73, \H02, \H64>>, <<\H73, \H02, \H8a>>)
       \/ Started(<<\H73, \H03, \H50>>, <<\H88, \H07, \H9d>>)
    /\ FramerIdle
    /\ BitmapIdle
    /\ CmdIdle
    /\ TouchIdle

NextCmd == CommandModeWriteReg \/ CommandModeReadReg

SpecCmd == InitCmd /\ [][NextCmd]_vars

\* Hardware initialisation of a started V4, Pinnacle or Rushmore device.
InitHw ==
    /\ \/ Started(<<\H73, \H02, \H64>>, <<\H73, \H02, \H8a>>)
       \/ Started(<<\H73, \H03, \H50>>, <<\H88, \H07, \H9d>>)
       \/ Started(<<\H73, \H03, \H0a>>, <<\H88, \H08, \H1d>>)
    /\ FramerIdle
    /\ BitmapIdle
    /\ CmdIdle
    /\ TouchIdle

NextHw == HwInit \/ SetupTrackstickV3

SpecHw == InitHw /\ [][NextHw]_vars

\* Packets of a started V2 device with a trackstick; tap-to-drag and the
\* momentum sample minimum are settings the user may have changed.
InitV1V2 ==
    /\ Started(<<\H73, \H00, \H0a>>, <<\H73, \H01, \H00>>)
    /\ \E drag \in BOOLEAN, samplesmin \in {1, 2} :
         TouchStart([TouchDefaults(modelData) EXCEPT
                        !.dragging = drag, !.momentumscrollsamplesmin = samplesmin])
    /\ FramerIdle
    /\ BitmapIdle
    /\ CmdIdle

NextV1V2 == ProcessPacketV1V2

SpecV1V2 == InitV1V2 /\ [][NextV1V2]_vars

\* Packets of a started V3 (Pinnacle) device.
InitV3 ==
    /\ Started(<<\H73, \H03, \H50>>, <<\H88, \H07, \H9d>>)
    /\ TouchStart(TouchDefaults(modelData))
    /\ FramerIdle
    /\ BitmapIdle
    /\ CmdIdle

NextV3 == ProcessPacketV3

NextTrackstickV3 == ProcessTrackstickV3

SpecV3 == InitV3 /\ [][NextV3]_vars

SpecTrackstickV3 == InitV3 /\ [][NextTrackstickV3]_vars

\* Packets on a started V4 device, gesture settings at their defaults.
InitV4 ==
    /\ Started(<<\H73, \H02, \H64>>, <<\H73, \H02, \H8a>>)
    /\ FramerIdle
    /\ BitmapIdle
    /\ CmdIdle
    /\ TouchStart(TouchDefaults(modelData))

NextV4 == ProcessPacketV4

SpecV4 == InitV4 /\ [][NextV4]_vars

\* Packets on a started device of either multi-packet protocol.
InitPackets == InitV3 \/ InitV4

NextPackets == ProcessSequenceV3 \/ ProcessPacketV4

SpecPackets == InitPackets /\ [][NextPackets]_vars

\* Settings of the pointer session: the defaults, sticky multi-touch, corner
\* scrolling triggered in the right edge, horizontal edge scrolling, and no
\* action outside the zone after typing, a key having been struck 300 ms
\* before the session; horizontal edge scrolling comes with a palm limit below
\* the pressure of the corner sample, and with both edge modes sticky.
PointerConfigs(d) ==
    { d,
      [d EXCEPT !.outzone_wt = TRUE, !.zoner = 5000, !.zonet = 4000,
                !.keytime = SessionStart - 300 * 1000 * 1000],
      [d EXCEPT !.wsticky = TRUE],
      [d EXCEPT !.cscrolldivisor = 4, !.ctrigger = 3],
      [d EXCEPT !.hscroll = TRUE, !.hscrolldivisor = 4, !.bedge = 4000, !.zlimit = 55],
      [d EXCEPT !.hscroll = TRUE, !.hscrolldivisor = 4, !.bedge = 4000,
                !.vsticky = TRUE, !.hsticky = TRUE] }

\* Samples of one and two fingers on a started V3 (Pinnacle) device.
InitPointer ==
    /\ Started(<<\H73, \H03, \H50>>, <<\H88, \H07, \H9d>>)
    /\ \E config \in PointerConfigs(TouchDefaults(modelData)) : TouchStart(config)
    /\ FramerIdle
    /\ BitmapIdle
    /\ CmdIdle

NextPointer == DispatchPointer

SpecPointer == InitPointer /\ [][NextPointer]_vars

\* Samples of three and four fingers on a started V3 (Pinnacle) device.
InitSwipe ==
    /\ Started(<<\H73, \H03, \H50>>, <<\H88, \H07, \H9d>>)
    /\ TouchStart(TouchDefaults(modelData))
    /\ FramerIdle
    /\ BitmapIdle
    /\ CmdIdle

NextSwipe == DispatchSwipe

SpecSwipe == InitSwipe /\ [][NextSwipe]_vars

\* Samples of one finger on a started V3 (Pinnacle) device with tap-to-drag on.
InitDrag ==
    /\ Started(<<\H73, \H03, \H50>>, <<\H88, \H07, \H9d>>)
    /\ TouchStart([TouchDefaults(modelData) EXCEPT !.dragging = TRUE])
    /\ FramerIdle
    /\ BitmapIdle
    /\ CmdIdle

NextDrag == DispatchDrag

SpecDrag == InitDrag /\ [][NextDrag]_vars

(***************************************************************************)
(* Properties.                                                             *)
(***************************************************************************)
Ordinals(p) == {p.cells[k].src : k \in 1..Len(p.cells)}

Called == lastCall.result # "none"

\* C1: the framer signals a packet only when the in-progress packet holds
\* exactly pktsize bytes, or exactly 3 bytes whose first byte has the legacy
\* signature; the cursor is then 0, it never exceeds pktsize - 1 between
\* calls, and no two signalled packets share a delivered byte.
C1_FramerSignalsWholePackets ==
    /\ _packetByteCount <= modelData.pktsize - 1
    /\ (lastCall.result = "kPS2IR_packetReady" =>
          LET p == signalled[Len(signalled)]
              n == Len(p.cells)
          IN /\ Len(signalled) = lastCall.sig0 + 1
             /\ n = lastCall.cnt0 + 1
             /\ (n = modelData.pktsize \/ (n = 3 /\ BitAnd(p.cells[1].b, \Hc8) = \H08))
             /\ p.cells[n].src = lastCall.src
             /\ \A k \in 1..(n - 1) : p.cells[k].src < p.cells[k + 1].src
             /\ _packetByteCount = 0)
    /\ (lastCall.result = "kPS2IR_packetBuffering" => Len(signalled) = lastCall.sig0)
    /\ \A i \in 1..Len(signalled) :
          /\ 0 \notin Ordinals(signalled[i])
          /\ \A j \in 1..Len(signalled) :
                i # j => Ordinals(signalled[i]) \cap Ordinals(signalled[j]) = {}

C1_Witness ==
    /\ lastCall.result = "kPS2IR_packetReady"
    /\ Len(signalled[Len(signalled)].cells) = modelData.pktsize
    /\ \E i \in 1..Len(signalled) : Len(signalled[i].cells) = 3

\* C2: once packetReady has returned, the drain loop has taken every
\* signalled packet exactly once, in arrival order, and the bytes it read at
\* the tail are the bytes the framer wrote for that packet.
C2_DrainTakesEachSignalledPacket ==
    ~pending =>
        /\ Len(consumed) = Len(signalled)
        /\ \A i \in 1..Len(signalled) :
              i <= Len(consumed) =>
                  /\ consumed[i].at = signalled[i].at
                  /\ consumed[i].cells = signalled[i].cells

\* C3: at cursor 0 a byte with neither the legacy nor the profile signature
\* is discarded (nothing stored, cursor stays 0, nothing signalled); a byte
\* with either signature is stored as byte 0 of a new packet.
C3_StartByteFilter ==
    (Called /\ lastCall.cnt0 = 0) =>
        IF /\ BitAnd(lastCall.data, \Hc8) # \H08
           /\ BitAnd(lastCall.data, modelData.mask0) # modelData.byte0
        THEN /\ _packetByteCount = 0
             /\ lastCall.result = "kPS2IR_packetBuffering"
             /\ Len(signalled) = lastCall.sig0
             /\ _ringBuffer.head = lastCall.head0
             /\ \A i \in DOMAIN _ringBuffer.buf : _ringBuffer.buf[i].src # lastCall.src
        ELSE /\ _packetByteCount = 1
             /\ lastCall.result = "kPS2IR_packetBuffering"
             /\ _ringBuffer.buf[lastCall.head0] = [b |-> lastCall.data, src |-> lastCall.src]

C3_Witness ==
    /\ Called
    /\ lastCall.cnt0 = 0
    /\ lastCall.data = \H80
    /\ _packetByteCount = 0
    /\ Len(signalled) >= 1

\* C4: at cursor >= 1 the byte 0x80 aborts the in-progress packet: the cursor
\* is 0 again, nothing is signalled, the byte is not stored, and the bytes
\* buffered so far never are part of a signalled packet.
C4_AbortOnInvalidContinuation ==
    /\ (Called /\ lastCall.cnt0 >= 1 /\ lastCall.data = \H80) =>
          /\ _packetByteCount = 0
          /\ lastCall.result = "kPS2IR_packetBuffering"
          /\ Len(signalled) = lastCall.sig0
          /\ _ringBuffer.head = lastCall.head0
          /\ \A i \in DOMAIN _ringBuffer.buf : _ringBuffer.buf[i].src # lastCall.src
          /\ Cardinality(aborted) >= lastCall.cnt0
    /\ \A i \in 1..Len(signalled) : Ordinals(signalled[i]) \cap aborted = {}

C4_Witness ==
    /\ Called
    /\ lastCall.cnt0 >= 2
    /\ lastCall.data = \H80
    /\ _packetByteCount = 0
    /\ aborted # {}

\* C5: no signalled packet holds, at a byte position >= 1, a byte with bit 7
\* set.
C5_ContinuationBytesHaveBit7Clear ==
    \A i \in 1..Len(signalled) :
        \A k \in 2..Len(signalled[i].cells) : signalled[i].cells[k].b < 128

\* C6: a queued packet whose first byte lacks the profile signature never
\* reaches process_packet (no byte of it does); the drain loop removes it and
\* continues with the next queued packet.
C6_BarePacketDroppedAndSkipped ==
    \A i \in 1..Len(signalled) :
        LET p == signalled[i] IN
        BitAnd(p.cells[1].b, modelData.mask0) # modelData.byte0 =>
            /\ \A j \in 1..Len(consumed) :
                  consumed[j].kind = "process_packet" =>
                      Ordinals(consumed[j]) \cap Ordinals(p) = {}
            /\ ~pending =>
                  \E j \in 1..Len(consumed) :
                      /\ consumed[j].kind = "ignored"
                      /\ consumed[j].cells = p.cells
                      /\ (i < Len(signalled) =>
                            /\ j < Len(consumed)
                            /\ consumed[j + 1].at = signalled[i + 1].at)

Identified == lastIdent.op # "none"

\* C7: identification with a valid E6 report, E7 = {0x73,0x02,0x64} and an EC
\* report whose third byte is 0x8a selects protocol V4 (V4 packet processor
\* and nibble table, sync byte/mask 0x8f/0x8f) whatever the state before, and
\* deviceSpecificInit then sets the packet size to 8.
C7_SignatureSelectsV4 ==
    (/\ Identified
     /\ lastIdent.in.failAt = 0
     /\ lastIdent.in.e6 \in {<<0, 0, 10>>, <<0, 0, 100>>}
     /\ lastIdent.in.e7 = <<\H73, \H02, \H64>>
     /\ lastIdent.in.ec[3] = \H8a) =>
        /\ lastIdent.ret = kIOReturnSuccess
        /\ modelData.proto_version = ALPS_PROTO_V4
        /\ process_packet = "processPacketV4"
        /\ hw_init = "hwInitV4"
        /\ modelData.nibble_commands = "alps_v4_nibble_commands"
        /\ modelData.byte0 = \H8f
        /\ modelData.mask0 = \H8f
        /\ (lastIdent.op = "deviceSpecificInit" => modelData.pktsize = 8)

C7_Witness ==
    /\ lastIdent.op = "deviceSpecificInit"
    /\ lastIdent.in.failAt = 0
    /\ lastIdent.in.e6 = <<0, 0, 10>>
    /\ lastIdent.in.e7 = <<\H73, \H02, \H64>>
    /\ lastIdent.in.ec = <<\H88, \H08, \H8a>>
    /\ modelData.pktsize = 8
    /\ modelData.proto_version = ALPS_PROTO_V4
    /\ decode_fields # "NULL"

E6Requested == Identified /\ lastIdent.in.failAt # 1

E6Accepted == Len(lastIdent.cmds) > 1

\* C8 as stated: the E6 report is accepted only if it is {0,0,10} or
\* {0,0,100} with bits 0-2 of byte 0 clear.
C8_OnlyExactE6Accepted ==
    E6Requested =>
        (E6Accepted => lastIdent.in.e6 \in {<<0, 0, 10>>, <<0, 0, 100>>})

\* C8 amended: the E6 report is accepted exactly when bits 3-7 of byte 0 are
\* clear, byte 1 is 0 and byte 2 is 10 or 100 (bits 0-2 of byte 0 are not
\* looked at); any other E6 report rejects the device with only the E6
\* exchange submitted and the profile left as it was.
C8_E6AcceptedUnlessHighBits ==
    [][ (lastIdent'.op # "none" /\ lastIdent'.in.failAt # 1) =>
           IF /\ lastIdent'.in.e6[1] \in 0..7
              /\ lastIdent'.in.e6[2] = 0
              /\ lastIdent'.in.e6[3] \in {10, 100}
           THEN Len(lastIdent'.cmds) > 1
           ELSE /\ lastIdent'.ret = kIOReturnInvalid
                /\ ~lastIdent'.ok
                /\ lastIdent'.cmds = <<"kDP_SetMouseScaling1To1">>
                /\ UNCHANGED profileVars ]_vars

C8_Witness ==
    /\ Identified
    /\ lastIdent.in.e6 = <<7, 0, 10>>
    /\ lastIdent.ret = kIOReturnSuccess
    /\ modelData.proto_version = ALPS_PROTO_V4

BitmapDone == lastBitmap.op = "processBitmap"

\* C9: with an empty x bitmap or an empty y bitmap the reconstructor returns
\* finger count 0 and leaves the second-touch corner and the contact
\* coordinates as they were.
C9_EmptyBitmapYieldsZero ==
    (BitmapDone /\ (lastBitmap.x_map = 0 \/ lastBitmap.y_map = 0)) =>
        /\ lastBitmap.ret = 0
        /\ modelData.second_touch = lastBitmap.second_touch0
        /\ f.x1 = lastBitmap.f0.x1
        /\ f.y1 = lastBitmap.f0.y1
        /\ f.x2 = lastBitmap.f0.x2
        /\ f.y2 = lastBitmap.f0.y2

C9_Witness ==
    /\ BitmapDone
    /\ lastBitmap.x_map = 0
    /\ lastBitmap.y_map # 0
    /\ lastBitmap.second_touch0 = -1
    /\ modelData.second_touch = -1
    /\ f.x2 = 77

SingleBit(map, bits) == \E k \in 0..(bits - 1) : map = Pow2(k)

\* C10: with exactly one set bit on each axis the reconstructor returns a
\* finger count <= 2 and the four corners coincide.
C10_SingleBitsGiveDegenerateBox ==
    (/\ BitmapDone
     /\ SingleBit(lastBitmap.x_map, modelData.x_bits)
     /\ SingleBit(lastBitmap.y_map, modelData.y_bits)) =>
        /\ lastBitmap.ret <= 2
        /\ lastBitmap.ret >= 1
        /\ \A i \in 0..3 : lastBitmap.corner[i] = lastBitmap.corner[0]

C10_Witness ==
    /\ BitmapDone
    /\ lastBitmap.x_map = Pow2(modelData.x_bits - 1)
    /\ lastBitmap.y_map = Pow2(modelData.y_bits - 1)
    /\ modelData.proto_version = ALPS_PROTO_V5
    /\ lastBitmap.ret = 1

\* Bit k of a bitmap.
Bit(map, k) == (map \div Pow2(k)) % 2

MapBits == 0..23

\* The positions at which a maximal run of set bits starts.
RunStarts(map) ==
    {k \in MapBits : Bit(map, k) = 1 /\ (k = 0 \/ Bit(map, k - 1) = 0)}

SetBits(map) == {k \in MapBits : Bit(map, k) = 1}

\* C19: for non-empty bitmaps the finger count returned by the reconstructor
\* is the larger of the numbers of maximal runs of set bits in the x bitmap
\* and in the y bitmap.
C19_FingerCountIsMaxRuns ==
    (BitmapDone /\ lastBitmap.x_map # 0 /\ lastBitmap.y_map # 0) =>
        LET rx == Cardinality(RunStarts(lastBitmap.x_map))
            ry == Cardinality(RunStarts(lastBitmap.y_map))
        IN lastBitmap.ret = IF rx >= ry THEN rx ELSE ry

C19_Witness ==
    /\ BitmapDone
    /\ lastBitmap.x_map = 6
    /\ lastBitmap.y_map = 5
    /\ lastBitmap.ret = 2

\* The bits a run covers.
Covered(pt) == {k \in MapBits : pt.start_bit <= k /\ k < pt.start_bit + pt.num_bits}

\* The split of an axis holding one run of n bits from bit s is as specified:
\* low = [s, n div 2 bits], high follows it with the remaining bits (at
\* least one); for n >= 2 the two are disjoint and cover the run.
SplitAsSpecified(map, pt) ==
    Cardinality(RunStarts(map)) = 1 =>
        LET n == Cardinality(SetBits(map))
            s == CHOOSE k \in RunStarts(map) : TRUE
        IN /\ pt.low = [start_bit |-> s, num_bits |-> n \div 2]
           /\ pt.high.start_bit = s + n \div 2
           /\ pt.high.num_bits = (IF n - n \div 2 >= 1 THEN n - n \div 2 ELSE 1)
           /\ n >= 2 =>
                 /\ Covered(pt.low) \cap Covered(pt.high) = {}
                 /\ Covered(pt.low) \cup Covered(pt.high) = SetBits(map)

\* C20: an axis bitmap with exactly one run of n set bits starting at bit s is
\* split into the low run [s, floor(n/2) bits] and a high run that starts
\* right after it and holds the remaining bits (at least 1); for n >= 2 the
\* two runs do not overlap and together cover exactly the original run.
C20_SingleRunSplitCoversRun ==
    (BitmapDone /\ lastBitmap.x_map # 0 /\ lastBitmap.y_map # 0) =>
        /\ SplitAsSpecified(lastBitmap.x_map, lastBitmap.pts.x)
        /\ SplitAsSpecified(lastBitmap.y_map, lastBitmap.pts.y)

\* Every exchange of the call completed all the steps requested.
AllCompleted(log) == \A i \in 1..Len(log) : log[i].done = Len(log[i].request)

\* C15: over a lossless transport and a device that stores the addressed
\* register, commandModeWriteReg(a, v) followed by commandModeReadReg(a)
\* returns v.
C15_WriteThenReadReturnsValue ==
    (/\ lastCmd.op = "commandModeReadReg"
     /\ prevCmd.op = "commandModeWriteReg"
     /\ lastCmd.addr = prevCmd.addr
     /\ lastCmd.plan = NoFault
     /\ prevCmd.plan = NoFault) =>
        lastCmd.ret = prevCmd.value

C15_Witness ==
    /\ lastCmd.op = "commandModeReadReg"
    /\ prevCmd.op = "commandModeWriteReg"
    /\ lastCmd.plan = NoFault
    /\ prevCmd.plan = NoFault
    /\ lastCmd.addr = \Hc2c4
    /\ prevCmd.addr = \Hc2c4
    /\ prevCmd.value = \Ha7
    /\ lastCmd.ret = \Ha7

\* C16: commandModeReadReg(addr) returns the third response byte only if the
\* address was set, the 4-step exchange completed and the first two response
\* bytes, as a big-endian 16-bit number, equal addr; otherwise it returns -1.
C16_ReadRegValidatesEcho ==
    lastCmd.op = "commandModeReadReg" =>
        LET full == Len(lastCmd.log) = 6 /\ AllCompleted(lastCmd.log)
        IN IF full /\ lastCmd.status[1] * 256 + lastCmd.status[2] = lastCmd.addr
           THEN lastCmd.ret = lastCmd.status[3]
           ELSE lastCmd.ret = -1

C16_Witness ==
    /\ lastCmd.op = "commandModeReadReg"
    /\ lastCmd.addr = \H1a3f
    /\ lastCmd.plan.report = <<\H00, \H3f, \H77>>
    /\ lastCmd.ret = -1

\* The request that carries one nibble: its table command, then its data byte
\* if the entry sends one, then a read if it receives one.
CarriesNibble(request, n) ==
    LET e == NibbleEntry(modelData, n)
        sends == e.counts \in {\H1000}
        reads == e.counts \in {\H0100}
    IN /\ Len(request) = 1 + (IF sends THEN 1 ELSE 0) + (IF reads THEN 1 ELSE 0)
       /\ request[1] = SendCmd(e.command)
       /\ sends => request[2] = SendCmd(e.data)
       /\ reads => request[2] = ReadCmd

\* C17: setting an address sends the address command and then the four
\* nibbles of the address, most significant first; writing a value sends its
\* high nibble and then its low nibble; the sequence stops at the first
\* exchange that completes fewer steps than requested and reports failure.
C17_NibbleOrderAndEarlyStop ==
    lastCmd.op \in {"commandModeWriteReg", "commandModeReadReg"} =>
        LET log == lastCmd.log
            a == lastCmd.addr
            wr == lastCmd.op = "commandModeWriteReg"
        IN /\ Len(log) >= 1
           /\ log[1].request = <<SendCmd(modelData.addr_command)>>
           /\ \A i \in 2..Len(log) :
                 /\ i = 2 => CarriesNibble(log[i].request, (a \div 4096) % 16)
                 /\ i = 3 => CarriesNibble(log[i].request, (a \div 256) % 16)
                 /\ i = 4 => CarriesNibble(log[i].request, (a \div 16) % 16)
                 /\ i = 5 => CarriesNibble(log[i].request, a % 16)
                 /\ (wr /\ i = 6) =>
                       CarriesNibble(log[i].request, (lastCmd.value \div 16) % 16)
                 /\ (wr /\ i = 7) => CarriesNibble(log[i].request, lastCmd.value % 16)
           /\ \A i \in 1..(Len(log) - 1) : log[i].done = Len(log[i].request)
           /\ AllCompleted(log) => Len(log) = IF wr THEN 7 ELSE 6
           /\ wr => (lastCmd.ok <=> AllCompleted(log))
           /\ (~wr /\ ~AllCompleted(log)) => lastCmd.ret = -1

C17_Witness ==
    /\ lastCmd.op = "commandModeWriteReg"
    /\ lastCmd.addr = \Hc2c4
    /\ lastCmd.plan.at = 4
    /\ Len(lastCmd.log) = 4
    /\ ~lastCmd.ok

\* The last packet reached dispatchEventsWithInfo through this handler.
Frame(op) == lastPacket.op = op /\ lastPacket.frame

\* C11: while the finger count of the frames stays >= 2 the second-touch corner
\* selected for the sequence is kept, wherever the primary contact is; a frame
\* with finger count <= 1 leaves it unselected (-1), and the next frame with
\* two fingers and a bitmap selects a corner again.
C11_SecondTouchHeldUntilSingleTouch ==
    Frame("processPacketV3") =>
        LET n == lastPacket.sample.fingers
            st0 == lastPacket.md0.second_touch
        IN /\ (n >= 2 /\ st0 # -1) => modelData.second_touch = st0
           /\ n <= 1 => modelData.second_touch = -1
           /\ (n >= 2 /\ st0 = -1 /\ lastPacket.sample.x_map # 0
                      /\ lastPacket.sample.y_map # 0) => modelData.second_touch \in 0..3

\* A corner selected with the primary contact at (400, 300) is still the one
\* in use two packets later with the primary contact at (1600, 1100).
C11_Witness ==
    /\ Frame("processPacketV3")
    /\ lastPacket.sample.fingers = 2
    /\ lastPacket.sample.xraw = 3 * 1600
    /\ lastPacket.md0.second_touch = 1
    /\ modelData.second_touch = 1
    /\ prevPacket.md0.second_touch = 1

\* A single-finger sample taken in MODE_NOTOUCH with scrolling enabled and a
\* non-zero vertical divisor, pressed harder than z_finger.
EdgeScrollSample ==
    /\ lastPacket.sample.mode0 = "MODE_NOTOUCH"
    /\ lastPacket.sample.fingers = 1
    /\ lastPacket.sample.z > lastPacket.sample.t0.z_finger
    /\ lastPacket.sample.t0.scroll
    /\ lastPacket.sample.t0.vscrolldivisor # 0

\* C12 as stated: such a sample with x beyond the right edge leaves the mode
\* MODE_VSCROLL and the scroll remainder 0.
C12_NoTouchToVScroll ==
    (Frame("processPacketV3") /\ EdgeScrollSample
        /\ lastPacket.sample.xraw > lastPacket.sample.t0.redge) =>
        touch.touchmode = "MODE_VSCROLL" /\ touch.scrollrest = 0

\* C12, amended: it does so when the sample is not being ignored (trackstick
\* in motion, or outside the zone shortly after typing), no corner-scroll
\* trigger applies, and x is the position after scaling and filtering.
C12_NoTouchToVScrollUnlessIgnored ==
    (Frame("processPacketV3") /\ EdgeScrollSample
        /\ lastPacket.sample.x > lastPacket.sample.t0.redge
        /\ ~lastPacket.sample.ignored
        /\ ~(lastPacket.sample.t0.cscrolldivisor # 0
             /\ CornerTrigger(lastPacket.sample.t0, lastPacket.sample.x,
                              lastPacket.sample.y))) =>
        touch.touchmode = "MODE_VSCROLL" /\ touch.scrollrest = 0

C12_Witness ==
    /\ Frame("processPacketV3") /\ EdgeScrollSample
    /\ lastPacket.sample.x > lastPacket.sample.t0.redge
    /\ ~lastPacket.sample.ignored
    /\ touch.touchmode = "MODE_VSCROLL"
    /\ lastPacket.sample.t0.lastx # 0

LeftSet(e) == e.type = "RelativePointer" /\ BitAnd(e.buttons, 1) = 1

LeftClear(e) == e.type = "RelativePointer" /\ BitAnd(e.buttons, 1) = 0

Still(e) == e.dx = 0 /\ e.dy = 0

\* The last two packets are a touch that began in MODE_NOTOUCH and its lift,
\* the lift within the tap time of the touch, with tapping enabled.
TapSequence ==
    /\ prevPacket.op = "processPacketV1V2" /\ prevPacket.frame
    /\ Frame("processPacketV1V2")
    /\ touch.clicking
    /\ prevPacket.sample.mode0 = "MODE_NOTOUCH"
    /\ prevPacket.sample.fingers = 1
    /\ isFingerTouch(touch, prevPacket.sample.z)
    /\ lastPacket.sample.lift
    /\ lastPacket.sample.fingers = 0
    /\ lastPacket.at - prevPacket.at < touch.maxtaptime

\* C13: a touch and its lift within the tap time dispatch exactly one left
\* click, a pointer event with the left button set followed by one with it
\* clear, both without motion, and leave the mode MODE_NOTOUCH.
C13_TapEmitsOneClick ==
    TapSequence =>
        LET ev == prevPacket.ev \o lastPacket.ev
            presses == {i \in 1..Len(ev) : LeftSet(ev[i])}
        IN /\ touch.touchmode = "MODE_NOTOUCH"
           /\ Cardinality(presses) = 1
           /\ \A i \in presses :
                  /\ Still(ev[i])
                  /\ i < Len(ev)
                  /\ LeftClear(ev[i + 1]) /\ Still(ev[i + 1])

\* C14: a lift in MODE_MTOUCH with momentum scrolling enabled and at least
\* momentumscrollsamplesmin samples in the dy history over a non-zero time
\* window sets the scroll timer, with momentumscrollcurrent the timer interval
\* times the negated sum of the history; any other lift does not set it.
C14_MomentumArmedWithMinSamples ==
    (Frame("processPacketV1V2") /\ lastPacket.sample.lift) =>
        LET t0 == lastPacket.sample.t0
            window == HistoryNewest(t0.time_history) - HistoryOldest(t0.time_history)
        IN IF /\ t0.touchmode = "MODE_MTOUCH"
              /\ t0.momentumscroll /\ t0.momentumscrolltimer # 0
              /\ Len(t0.dy_history) >= t0.momentumscrollsamplesmin
              /\ window # 0
           THEN /\ touch.scrollTimerSets = t0.scrollTimerSets + 1
                /\ touch.momentumscrollcurrent =
                       t0.momentumscrolltimer * (-SeqSum(t0.dy_history))
           ELSE touch.scrollTimerSets = t0.scrollTimerSets

\* C18: a V1/V2 packet of a dual-pointer device whose z field is 127 dispatches
\* exactly one relative pointer event, dx = (x > 383 ? x - 768 : x) and
\* dy = -(y > 255 ? y - 512 : y), and leaves the mode, the last position, the
\* last finger count and prev_fin as they were.
C18_TrackstickPacketV1V2 ==
    (/\ lastPacket.op = "processPacketV1V2"
     /\ BitAnd(lastPacket.md0.flags, ALPS_DUALPOINT) # 0
     /\ lastPacket.packet[6] = 127) =>
        LET d == decodeV1V2(lastPacket.md0, lastPacket.packet)
            t0 == lastPacket.t0
        IN /\ Len(lastPacket.ev) = 1
           /\ lastPacket.ev[1].type = "RelativePointer"
           /\ lastPacket.ev[1].dx = (IF d.x > 383 THEN d.x - 768 ELSE d.x)
           /\ lastPacket.ev[1].dy = -(IF d.y > 255 THEN d.y - 512 ELSE d.y)
           /\ touch.touchmode = t0.touchmode
           /\ touch.lastx = t0.lastx /\ touch.lasty = t0.lasty
           /\ touch.last_fingers = t0.last_fingers
           /\ modelData.prev_fin = lastPacket.md0.prev_fin
           /\ touch = t0

\* A trackstick packet with a negative dx while a finger is being followed.
C18_Witness ==
    /\ lastPacket.op = "processPacketV1V2"
    /\ lastPacket.packet[6] = 127
    /\ lastPacket.ev = <<RelativePointerEvent(-68, 212, 0)>>
    /\ touch.touchmode = "MODE_MOVE"
    /\ touch.lastx = 520


\* Squared Euclidean distance from the single-touch coordinate to a corner.
CornerDistance(c, x, y) == (x - c.x) * (x - c.x) + (y - c.y) * (y - c.y)

\* The corner nearest the single-touch coordinate, the lowest index on ties.
NearestCorner(corner, x, y) ==
    CHOOSE i \in 0..3 :
        \A j \in 0..3 :
            \/ CornerDistance(corner[i], x, y) < CornerDistance(corner[j], x, y)
            \/ (CornerDistance(corner[i], x, y) = CornerDistance(corner[j], x, y) /\ i <= j)

\* A frame with two or more fingers and both bitmaps non-empty that follows no
\* frame or a frame with fewer than two fingers.
FirstBitmapFrame ==
    /\ Frame("processPacketV3")
    /\ lastPacket.sample.mt
    /\ lastPacket.sample.x_map # 0 /\ lastPacket.sample.y_map # 0
    /\ lastPacket.before < 2

\* C21: on the first bitmap frame of every sequence with two or more fingers,
\* the first of the session included, the corner stored as the second touch is
\* the one diagonally opposite the corner nearest the single-touch coordinate
\* (lowest index on ties), and its index is in 0..3.
C21_OppositeCornerOnFirstFrame ==
    FirstBitmapFrame =>
        /\ modelData.second_touch \in 0..3
        /\ modelData.second_touch =
               (NearestCorner(lastPacket.sample.corner, lastPacket.sample.xraw \div 3,
                              lastPacket.sample.yraw \div 3) + 2) % 4

\* Bit k of a byte, and the word whose bit i is listed at position i + 1.
BitOf(b, k) == (b \div Pow2(k)) % 2

RECURSIVE WordOf(_)
WordOf(bits) == IF bits = <<>> THEN 0 ELSE Head(bits) + 2 * WordOf(Tail(bits))

\* C22: a V4 packet stores its fragment (bytes 6 and 7) at offsets 2k and 2k+1,
\* k the fragment counter, which a sync bit (0x40 of byte 6) first resets to 0;
\* the counter then goes 0 -> 1 -> 2 -> 0, the offset written never exceeds 5,
\* and the third fragment, and only it, has the x and y bitmap words assembled
\* from the six accumulated bytes.
C22_FragmentCounterV4 ==
    lastPacket.op = "processPacketV4" =>
        LET k == IF BitOf(lastPacket.packet[7], 6) = 1 THEN 0
                 ELSE lastPacket.md0.multi_packet
            d == modelData.multi_data
        IN /\ k \in 0..2
           /\ lastPacket.offset = 2 * k
           /\ lastPacket.offset + 1 <= 5
           /\ d[2 * k + 1] = lastPacket.packet[7]
           /\ d[2 * k + 2] = lastPacket.packet[8]
           /\ \A i \in (1..6) \ {2 * k + 1, 2 * k + 2} :
                  d[i] = lastPacket.md0.multi_data[i]
           /\ modelData.multi_packet = (k + 1) % 3
           /\ lastPacket.assembled <=> k = 2
           /\ lastPacket.assembled =>
                  /\ lastPacket.bitmaps.x_bitmap =
                         WordOf(<<BitOf(d[2], 5), BitOf(d[2], 6)>>
                                \o [i \in 1..6 |-> BitOf(d[1], i - 1)]
                                \o <<BitOf(d[4], 5), BitOf(d[4], 6)>>
                                \o [i \in 1..5 |-> BitOf(d[3], i - 1)])
                  /\ lastPacket.bitmaps.y_bitmap =
                         WordOf([i \in 1..5 |-> BitOf(d[2], i - 1)]
                                \o [i \in 1..5 |-> BitOf(d[4], i - 1)]
                                \o <<BitOf(d[6], 0)>>)

\* A third fragment completes a bitmap that a sync packet began as the second
\* packet of the session, cutting short the one the first packet had begun.
C22_Witness ==
    /\ lastPacket.op = "processPacketV4"
    /\ lastPacket.assembled
    /\ lastPacket.bitmaps.x_bitmap # 0
    /\ lastPacket.bitmaps.y_bitmap # 0
    /\ prevPacket.md0.multi_packet = 1
    /\ prevPacket.md0.multi_data[1] = \H41
    /\ npackets = 4
    /\ modelData.multi_packet = 0

\* The last operation was a sample that dispatchEventsWithInfo did not ignore.
Dispatched == lastPacket.op = "dispatchEventsWithInfo" /\ ~lastPacket.sample.ignored

\* The contact is farther from the touch-start position than thx horizontally
\* or thy vertically.
MovedBeyond(c, xraw, yraw, thx, thy) ==
    abs(xraw - c.touchx) > thx \/ abs(yraw - c.touchy) > thy

\* C23: in a touch mode with a finger touching, a contact farther from the
\* touch-start position than tapthreshx horizontally or tapthreshy vertically
\* (dblthreshx, dblthreshy once a double or triple tap has been recognised)
\* has the pending tap cancelled: the touch-start time is 0 when the sample's
\* motion is computed.
C23_TapCancelledBeyondThreshold ==
    (/\ Dispatched
     /\ isTouchMode(lastPacket.sample.atMotion)
     /\ isFingerTouch(lastPacket.sample.atMotion, lastPacket.sample.z)) =>
        LET c == lastPacket.sample.atMotion
            xraw == ScaleX(c, lastPacket.sample.xraw)
            yraw == ScaleY(c, lastPacket.sample.yraw)
        IN IF ~c.wasdouble /\ ~c.wastriple
           THEN MovedBeyond(c, xraw, yraw, c.tapthreshx, c.tapthreshy) => c.touchtime = 0
           ELSE MovedBeyond(c, xraw, yraw, c.dblthreshx, c.dblthreshy) => c.touchtime = 0

\* The swipe messages of one entry of the contact log.
MessagesOf(entry) == {entry.msgs[n].message : n \in DOMAIN entry.msgs}

Swipes3 == {"kPS2M_swipeUp", "kPS2M_swipeDown", "kPS2M_swipeLeft", "kPS2M_swipeRight"}

Swipes4 == {"kPS2M_swipe4Up", "kPS2M_swipe4Down", "kPS2M_swipe4Left", "kPS2M_swipe4Right"}

\* The swipe of the opposite direction with the same number of fingers.
OppositeSwipe(msg) ==
    CASE msg = "kPS2M_swipeUp" -> "kPS2M_swipeDown"
      [] msg = "kPS2M_swipeDown" -> "kPS2M_swipeUp"
      [] msg = "kPS2M_swipeLeft" -> "kPS2M_swipeRight"
      [] msg = "kPS2M_swipeRight" -> "kPS2M_swipeLeft"
      [] msg = "kPS2M_swipe4Up" -> "kPS2M_swipe4Down"
      [] msg = "kPS2M_swipe4Down" -> "kPS2M_swipe4Up"
      [] msg = "kPS2M_swipe4Left" -> "kPS2M_swipe4Right"
      [] msg = "kPS2M_swipe4Right" -> "kPS2M_swipe4Left"

\* The four finger swipe of the direction of a three finger swipe.
FourFingerSwipe(msg) ==
    CASE msg = "kPS2M_swipeUp" -> "kPS2M_swipe4Up"
      [] msg = "kPS2M_swipeDown" -> "kPS2M_swipe4Down"
      [] msg = "kPS2M_swipeLeft" -> "kPS2M_swipe4Left"
      [] msg = "kPS2M_swipeRight" -> "kPS2M_swipe4Right"
      [] OTHER -> "none"

\* Samples i < j of the log that both sent the swipe message msg.
SentTwice(log, msg, i, j) ==
    i < j /\ msg \in MessagesOf(log[i]) /\ msg \in MessagesOf(log[j])

\* C24 as stated: within one contact of three or four fingers the swipe event
\* of a direction is sent at most once: between two samples that send the same
\* swipe there is a lift.
C24_SwipeOncePerContact ==
    lastPacket.op = "dispatchEventsWithInfo" =>
        \A msg \in Swipes3 \cup Swipes4 : \A i, j \in DOMAIN lastPacket.log :
            SentTwice(lastPacket.log, msg, i, j) =>
                \E k \in (i + 1)..j : lastPacket.log[k].lift

\* C24, amended: between two samples that send the same swipe there is a lift,
\* or the swipe of the opposite direction with the same number of fingers, or,
\* for a three finger swipe, the four finger swipe of its direction: these are
\* what clears the latch of a swipe.
C24_SwipeOncePerLatch ==
    lastPacket.op = "dispatchEventsWithInfo" =>
        \A msg \in Swipes3 \cup Swipes4 : \A i, j \in DOMAIN lastPacket.log :
            SentTwice(lastPacket.log, msg, i, j) =>
                \E k \in (i + 1)..j :
                    \/ lastPacket.log[k].lift
                    \/ /\ k < j
                       /\ {OppositeSwipe(msg), FourFingerSwipe(msg)}
                              \cap MessagesOf(lastPacket.log[k]) # {}

\* Three fingers have moved up by more than the swipe distance twice in one
\* contact: the first sample sent the swipe, the second finds it latched.
C24_Witness ==
    /\ Dispatched
    /\ lastPacket.sample.fingers = 3
    /\ lastPacket.sample.atMotion.inSwipeUp = 1
    /\ lastPacket.sample.atMotion.inSwipe4Up = 0
    /\ lastPacket.sample.motion.t.ymoved < -touch.swipedy
    /\ Messages(lastPacket.ev) = <<>>
    /\ "kPS2M_swipeUp" \in MessagesOf(lastPacket.log[Len(lastPacket.log) - 1])

\* The latches of the three and of the four finger swipes, by the three finger
\* swipe message of their direction.
Latch3(t) ==
    [kPS2M_swipeUp |-> t.inSwipeUp, kPS2M_swipeDown |-> t.inSwipeDown,
     kPS2M_swipeLeft |-> t.inSwipeLeft, kPS2M_swipeRight |-> t.inSwipeRight]

Latch4(t) ==
    [kPS2M_swipeUp |-> t.inSwipe4Up, kPS2M_swipeDown |-> t.inSwipe4Down,
     kPS2M_swipeLeft |-> t.inSwipe4Left, kPS2M_swipeRight |-> t.inSwipe4Right]

\* C25: a three finger swipe is not sent while the four finger latch of its
\* direction is set; a sample that sends a four finger swipe leaves the three
\* finger latch of that direction clear; a sample sends at most one swipe.
C25_FourFingerSwipeExcludesThree ==
    Dispatched =>
        /\ \A msg \in Swipes3 :
              /\ msg \in MessagesOf(lastPacket.log[Len(lastPacket.log)]) =>
                     Latch4(lastPacket.sample.atMotion)[msg] = 0
              /\ FourFingerSwipe(msg) \in MessagesOf(lastPacket.log[Len(lastPacket.log)]) =>
                     /\ Latch3(lastPacket.sample.motion.t)[msg] = 0
                     /\ Latch3(touch)[msg] = 0
        /\ Len(Messages(lastPacket.ev)) <= 1

\* A four finger swipe up is sent in a contact whose three finger swipe up
\* was latched, and clears that latch.
C25_Witness ==
    /\ Dispatched
    /\ lastPacket.sample.fingers = 4
    /\ Messages(lastPacket.ev) = <<KeyboardMessage("kPS2M_swipe4Up")>>
    /\ lastPacket.sample.atMotion.inSwipeUp = 1
    /\ touch.inSwipeUp = 0
    /\ touch.inSwipe4Up = 1

\* The sample entered the switch (touchmode) in MODE_MTOUCH with one finger.
OneFingerInMultiTouch ==
    /\ Dispatched
    /\ lastPacket.sample.atMotion.touchmode = "MODE_MTOUCH"
    /\ lastPacket.sample.fingers = 1

NoScrollEvent(ev) == \A n \in DOMAIN ev : ev[n].type # "ScrollWheel"

PointerEvent(ev) == ev[Len(ev)]

\* The sample entered the switch (touchmode) in a pointer mode with the finger
\* count of the sample before it, more than 100 ms after the touch time.
PointerMotionSample ==
    /\ Dispatched
    /\ lastPacket.sample.atMotion.touchmode \in {"MODE_MOVE", "MODE_DRAG", "MODE_DRAGLOCK"}
    /\ lastPacket.sample.atMotion.last_fingers = lastPacket.sample.fingers
    /\ lastPacket.at - lastPacket.sample.atMotion.touchtime > 100 * 1000 * 1000

\* Emitted delta and remainder account for the whole of delta.
Conserved(emitted, rest, delta, divisor) ==
    emitted * divisor + rest = delta /\ abs(rest) < divisor

TouchingSample ==
    /\ Dispatched
    /\ lastPacket.sample.z > touch.z_finger
    /\ lastPacket.sample.z < touch.zlimit

\* The mode a touching sample of one finger leaves MODE_NOTOUCH for.
ModeFromNoTouch(t, x, y) ==
    IF t.scroll /\ t.cscrolldivisor # 0 /\ CornerTrigger(t, x, y) THEN "MODE_CSCROLL"
    ELSE IF x > t.redge /\ t.vscrolldivisor # 0 /\ t.scroll THEN "MODE_VSCROLL"
    ELSE IF y > t.bedge /\ t.hscrolldivisor # 0 /\ t.hscroll /\ t.scroll THEN "MODE_HSCROLL"
    ELSE "MODE_MOVE"

\* C28: after the mode switches that follow the motion of a touching sample
\* the mode is MODE_MTOUCH if the sample has more than one finger, whatever
\* the mode was; otherwise, coming from MODE_NOTOUCH, it is MODE_CSCROLL if the
\* configured corner trigger is met, else MODE_VSCROLL or MODE_HSCROLL if the
\* contact is in the right or bottom edge with that scroll enabled, else
\* MODE_MOVE; and it is never MODE_NOTOUCH.
C28_ModeSwitchPriority ==
    TouchingSample =>
        /\ lastPacket.sample.fingers > 1 => touch.touchmode = "MODE_MTOUCH"
        /\ (/\ lastPacket.sample.fingers <= 1
            /\ lastPacket.sample.motion.t.touchmode = "MODE_NOTOUCH") =>
               touch.touchmode = ModeFromNoTouch(touch, lastPacket.sample.x,
                                                 lastPacket.sample.y)
        /\ touch.touchmode # "MODE_NOTOUCH"

\* With the corner trigger of the right edge configured, a touch in the right
\* edge starts corner scrolling although vertical edge scrolling is enabled.
C28_Witness ==
    /\ TouchingSample
    /\ lastPacket.sample.fingers = 1
    /\ lastPacket.sample.motion.t.touchmode = "MODE_NOTOUCH"
    /\ lastPacket.sample.x > touch.redge
    /\ touch.vscrolldivisor # 0
    /\ touch.touchmode = "MODE_CSCROLL"

\* A sample with a finger touching reaches the mode switches in this mode.
RenewedContact(mode) ==
    /\ Dispatched
    /\ isFingerTouch(touch, lastPacket.sample.z)
    /\ lastPacket.sample.motion.t.touchmode = mode

\* The mode a promotion to mode ends the sample in: more than one finger goes
\* on to MODE_MTOUCH.
PromotedTo(mode) == IF lastPacket.sample.fingers > 1 THEN "MODE_MTOUCH" ELSE mode

AllLeftSet(ev) == \A n \in DOMAIN ev : ev[n].type = "RelativePointer" => LeftSet(ev[n])

\* C29: a sample with a finger touching promotes MODE_PREDRAG to MODE_DRAG and
\* MODE_DRAGNOTOUCH to MODE_DRAGLOCK; the latter cancels the drag timer; and
\* the pointer events of a sample whose motion is computed in MODE_DRAGLOCK or
\* MODE_DRAGNOTOUCH have the left button set.
C29_DragPromotions ==
    /\ RenewedContact("MODE_PREDRAG") => touch.touchmode = PromotedTo("MODE_DRAG")
    /\ RenewedContact("MODE_DRAGNOTOUCH") =>
          /\ touch.touchmode = PromotedTo("MODE_DRAGLOCK")
          /\ touch.timerLog =
                 Append(lastPacket.sample.motion.t.timerLog, CancelTimer("dragTimer"))
          /\ ~touch.dragTimerArmed
    /\ (/\ Dispatched
        /\ lastPacket.sample.atMotion.touchmode \in {"MODE_DRAGLOCK", "MODE_DRAGNOTOUCH"}) =>
           AllLeftSet(lastPacket.ev)

\* A drag released late waits in MODE_DRAGNOTOUCH with the timer pending; the
\* next touch of one finger locks the drag and cancels the timer.
C29_Witness ==
    /\ RenewedContact("MODE_DRAGNOTOUCH")
    /\ lastPacket.sample.fingers = 1
    /\ lastPacket.sample.motion.t.dragTimerArmed
    /\ touch.touchmode = "MODE_DRAGLOCK"
    /\ ~touch.dragTimerArmed
    /\ LeftSet(PointerEvent(lastPacket.ev))
    /\ prevPacket.sample.atMotion.touchmode = "MODE_DRAGNOTOUCH"
    /\ prevPacket.sample.lift

\* C30: every setTimerTimeout on the scroll timer or the drag timer comes
\* right after a cancelTimer on the same timer.
C30_TimerCancelledBeforeArmed ==
    lastPacket.op = "processPacketV1V2" =>
        \A n \in DOMAIN touch.timerLog :
            touch.timerLog[n].op = "setTimerTimeout" =>
                /\ n > 1
                /\ touch.timerLog[n - 1] = CancelTimer(touch.timerLog[n].timer)

\* The last operation left the gesture mode at mode, having found another.
Becomes(mode) ==
    /\ lastPacket.op # "none"
    /\ touch.touchmode = mode
    /\ lastPacket.t0.touchmode # mode

\* The last operation dispatched a sample with a finger touching.
ContactSample == lastPacket.frame /\ isFingerTouch(touch, lastPacket.sample.z)

\* The drag edges: MODE_DRAG is entered from MODE_PREDRAG by a touching
\* sample, MODE_DRAGLOCK from MODE_DRAGNOTOUCH by a touching sample, and
\* MODE_DRAGNOTOUCH from MODE_DRAG or MODE_DRAGLOCK by a lift.
DragEdges ==
    /\ Becomes("MODE_DRAG") =>
           lastPacket.t0.touchmode = "MODE_PREDRAG" /\ ContactSample
    /\ Becomes("MODE_DRAGLOCK") =>
           lastPacket.t0.touchmode = "MODE_DRAGNOTOUCH" /\ ContactSample
    /\ Becomes("MODE_DRAGNOTOUCH") =>
           /\ lastPacket.t0.touchmode \in {"MODE_DRAG", "MODE_DRAGLOCK"}
           /\ lastPacket.frame /\ lastPacket.sample.lift

\* C32: on the packet path of a V1/V2 device the mode becomes MODE_DRAG only
\* from MODE_PREDRAG on renewed contact, MODE_DRAGLOCK only from
\* MODE_DRAGNOTOUCH on renewed contact, and MODE_DRAGNOTOUCH only from
\* MODE_DRAG or MODE_DRAGLOCK on a lift.
C32_DragEdgesV1V2 == lastPacket.op = "processPacketV1V2" => DragEdges

\* The last sample falls under the typing rule: pressure above the threshold,
\* within maxaftertyping of the last keystroke, contact outside the zone.
SuppressedByTyping ==
    /\ lastPacket.op = "dispatchEventsWithInfo"
    /\ lastPacket.t0.outzone_wt
    /\ lastPacket.sample.z > lastPacket.t0.z_finger
    /\ lastPacket.at - lastPacket.t0.keytime < lastPacket.t0.maxaftertyping
    /\ \/ lastPacket.sample.x < lastPacket.t0.zonel
       \/ lastPacket.sample.x > lastPacket.t0.zoner
       \/ lastPacket.sample.y < lastPacket.t0.zoneb
       \/ lastPacket.sample.y > lastPacket.t0.zonet

\* C33: a sample suppressed by the typing rule dispatches no event and leaves
\* the mode, the last finger count, the last pressure and the tap timers as
\* they were.
C33_SuppressedSampleChangesNothing ==
    SuppressedByTyping =>
        /\ lastPacket.ev = <<>>
        /\ touch.touchmode = lastPacket.t0.touchmode
        /\ touch.last_fingers = lastPacket.t0.last_fingers
        /\ modelData.lastz = lastPacket.md0.lastz
        /\ touch.touchtime = lastPacket.t0.touchtime
        /\ touch.untouchtime = lastPacket.t0.untouchtime

\* A contact under way moves outside the zone shortly after a keystroke: the
\* sample is suppressed although it changes the finger count.
C33_Witness ==
    /\ SuppressedByTyping
    /\ lastPacket.sample.ignored
    /\ lastPacket.t0.touchmode = "MODE_MTOUCH"
    /\ lastPacket.sample.fingers = 1
    /\ lastPacket.t0.last_fingers = 2
    /\ touch.last_fingers = 2
    /\ events # <<>>

\* The last sample reached the motion step in the given mode.
MotionIn(mode) == Dispatched /\ lastPacket.sample.atMotion.touchmode = mode

\* The mode the motion step of the last sample left, before the mode is
\* evaluated again.
ModeAfterMotion == lastPacket.sample.motion.t.touchmode

LeftEdgeMode(outside) ==
    \/ outside
    \/ lastPacket.sample.fingers > 1
    \/ lastPacket.sample.z > lastPacket.sample.atMotion.zlimit

ScrollModeLeft(mode, sticky, outside) ==
    MotionIn(mode) =>
        IF sticky THEN ModeAfterMotion = mode
        ELSE LeftEdgeMode(outside) =>
                 ModeAfterMotion = "MODE_NOTOUCH" /\ NoScrollEvent(lastPacket.ev)

\* C34: in MODE_VSCROLL (MODE_HSCROLL) without the sticky setting, a sample left
\* of redge (below bedge), with more than one finger or with a pressure above
\* zlimit sends no scroll event and leaves the motion step in MODE_NOTOUCH; with
\* the sticky setting the motion step leaves the mode as it is.
C34_EdgeScrollLeft ==
    /\ ScrollModeLeft("MODE_VSCROLL", lastPacket.sample.atMotion.vsticky,
                      lastPacket.sample.x < lastPacket.sample.atMotion.redge)
    /\ ScrollModeLeft("MODE_HSCROLL", lastPacket.sample.atMotion.hsticky,
                      lastPacket.sample.y < lastPacket.sample.atMotion.bedge)

\* A finger scrolling in the right edge moves away from it without the sticky
\* setting: the motion step leaves MODE_NOTOUCH and the sample ends in MODE_MOVE.
C34_Witness ==
    /\ MotionIn("MODE_VSCROLL")
    /\ ~lastPacket.sample.atMotion.vsticky
    /\ lastPacket.sample.x < lastPacket.sample.atMotion.redge
    /\ lastPacket.sample.fingers = 1
    /\ ModeAfterMotion = "MODE_NOTOUCH"
    /\ touch.touchmode = "MODE_MOVE"

\* The last sample was a lift: pressure below z_finger in a touch mode.
LiftSample == Dispatched /\ lastPacket.sample.lift

\* C35: after a sample in which a lift is detected the mode is MODE_NOTOUCH,
\* MODE_PREDRAG or MODE_DRAGNOTOUCH, whatever the tap time, the tap settings,
\* the double and triple tap flags and the finger counts are.
C35_LiftLeavesTouchMode ==
    LiftSample =>
        touch.touchmode \in {"MODE_NOTOUCH", "MODE_PREDRAG", "MODE_DRAGNOTOUCH"}

TrackstickPacket == lastPacket.op = "processPacketV3" /\ lastPacket.trackstick

TouchpadPacket == lastPacket.op = "processPacketV3" /\ ~lastPacket.trackstick

\* The last packet has bit 6 of its first byte clear or is the packet that ends
\* a stream of trackstick data.
TrackstickRejected ==
    \/ BitAnd(lastPacket.packet[1], \H40) = 0
    \/ /\ lastPacket.packet[2] = \H7f
       /\ lastPacket.packet[3] = \H7f
       /\ lastPacket.packet[4] = \H7f

SampleIgnored ==
    /\ lastPacket.ev = <<>>
    /\ touch.touchmode = lastPacket.t0.touchmode
    /\ touch.lastx = lastPacket.t0.lastx
    /\ touch.lasty = lastPacket.t0.lasty
    /\ touch.last_fingers = lastPacket.t0.last_fingers

FrameV4 == lastPacket.op = "processPacketV4" /\ lastPacket.frame

DroppedOverrun ==
    \/ lastPacket.op = "processPacketV3" /\ ~lastPacket.trackstick
           /\ lastPacket.md0.multi_packet > 2
    \/ lastPacket.op = "processPacketV4" /\ lastPacket.offset = -1

\* C38: multi_packet is 0 or 1 after any sequence of V3 packets and 0, 1 or 2
\* after any sequence of V4 packets, and no packet is dropped for a counter
\* above 2.
C38_MultiPacketInRange ==
    /\ process_packet = "processPacketV3" => modelData.multi_packet \in 0..1
    /\ process_packet = "processPacketV4" => modelData.multi_packet \in 0..2
    /\ ~DroppedOverrun

\* A V4 packet finds the counter at 2, stores the third fragment and takes the
\* counter back to 0.
C38_Witness ==
    /\ lastPacket.op = "processPacketV4"
    /\ lastPacket.md0.multi_packet = 2
    /\ BitAnd(lastPacket.packet[7], \H40) = 0
    /\ lastPacket.offset = 4
    /\ modelData.multi_packet = 0

\* The last packet was a Pinnacle bitmap packet (bit 6 of its first byte set)
\* that found no first packet of a sequence stored.
StrayBitmapV3 ==
    /\ TouchpadPacket
    /\ decode_fields = "decodePinnacle"
    /\ BitAnd(lastPacket.packet[1], \H40) # 0
    /\ lastPacket.md0.multi_packet = 0

\* C40: a V3 bitmap packet that does not follow a stored first packet is
\* dropped: it sends no event and leaves the device data (counter, stored
\* packet, corner of the second touch) and the gesture state as they were.
C40_StrayBitmapDropped ==
    StrayBitmapV3 =>
        /\ ~lastPacket.frame
        /\ lastPacket.ev = <<>>
        /\ modelData = lastPacket.md0
        /\ touch = lastPacket.t0

\* A two-finger bitmap packet arrives after a complete sequence has been
\* consumed, with a finger on the pad and a second-touch corner held.
C40_Witness ==
    /\ StrayBitmapV3
    /\ lastPacket.packet = <<\Hcf, \H02, \H02, \H10, \H04, \H01>>
    /\ modelData.second_touch # -1
    /\ touch.touchmode = "MODE_MTOUCH"
    /\ modelData.multi_data # [i \in 1..6 |-> 0]
    /\ events # <<>>

\* The register calls of a run that failed, and the first of them.
FailedCalls(log) ==
    {i \in DOMAIN log : /\ log[i].op \in {"commandModeReadReg", "commandModeWriteReg"}
                        /\ ~log[i].ok}

FirstFailed(log) == CHOOSE i \in FailedCalls(log) : \A j \in FailedCalls(log) : i <= j

NoWriteAfter(log, i) ==
    \A j \in DOMAIN log : j > i => log[j].op # "commandModeWriteReg"

\* C31: in hwInitV3 the first register read or write that fails ends the
\* sequence: no register is written after it, the last step is the exit from
\* command mode, and hwInitV3 returns false.
C31_FirstFailureAborts ==
    lastCmd.op = "hwInitV3" /\ FailedCalls(lastCmd.log) # {} =>
        /\ NoWriteAfter(lastCmd.log, FirstFailed(lastCmd.log))
        /\ lastCmd.log[Len(lastCmd.log)].op = "exitCommandMode"
        /\ ~lastCmd.ok

\* The calls of enterCommandMode that returned true, and the last of them.
Entered(log) == {i \in DOMAIN log : log[i].op = "enterCommandMode" /\ log[i].ok}

LastEntered(log) == CHOOSE i \in Entered(log) : \A j \in Entered(log) : j <= i

ExitAfterLastEnter(log) ==
    Entered(log) # {} =>
        \E j \in DOMAIN log : j > LastEntered(log) /\ log[j].op = "exitCommandMode"

InitRun == lastCmd.op \in {"hwInitV3", "hwInitRushmoreV3", "hwInitV4"}

SetupRun == lastCmd.op = "setupTrackstickV3"

\* C39 as stated: on every path through the three initialisations and through
\* setupTrackstickV3, once command mode has been entered the exit from command
\* mode is requested after the last enter and before the return.
C39_ExitAfterEnter == InitRun \/ SetupRun => ExitAfterLastEnter(lastCmd.log)

\* The write of 0x82 to the trackstick register failed right after command
\* mode was entered for it, and the enter of the pass-through that closes
\* setupTrackstickV3 failed as well.
SetupLeftEntered(log) ==
    /\ Entered(log) # {}
    /\ LastEntered(log) + 2 = Len(log)
    /\ log[Len(log) - 1].op = "commandModeWriteReg"
    /\ log[Len(log) - 1].value = \H82
    /\ ~log[Len(log) - 1].ok
    /\ log[Len(log)].op = "enterCommandMode"
    /\ ~log[Len(log)].ok

\* C39 amended: the three initialisations request the exit after the last
\* enter on every path; setupTrackstickV3 does so too, except that it returns
\* kIOReturnIOError with command mode entered when the write of 0x82 and the
\* enter that follows it both fail, and leaves the exit to its caller.
C39_ExitAfterEnterByCaller ==
    /\ InitRun => ExitAfterLastEnter(lastCmd.log)
    /\ SetupRun /\ ~ExitAfterLastEnter(lastCmd.log) =>
            lastCmd.ret = kIOReturnIOError /\ SetupLeftEntered(lastCmd.log)

\* hwInitV3 sets up the trackstick, the write of 0x82 and the enter after it
\* fail, and the exit of hwInitV3's error path is the last step of the run.
C39_Witness ==
    /\ lastCmd.op = "hwInitV3"
    /\ ~lastCmd.ok
    /\ Cardinality(lastCmd.faults) = 2
    /\ lastCmd.log[Len(lastCmd.log)].op = "exitCommandMode"
    /\ SetupLeftEntered(SubSeq(lastCmd.log, 1, Len(lastCmd.log) - 1))

====
